---- MODULE Spec2Model ----
(***************************************************************************)
(* Financial report aggregation of the CoffeeTech transactions service.    *)
(* The model follows use_cases/generate_financial_report_use_case.py: one  *)
(* report request runs through plot validation, farm lookup, permission    *)
(* check, transaction fetch, per-transaction aggregation, response         *)
(* assembly and the optional transaction history.                          *)
(***************************************************************************)
EXTENDS Integers, Sequences, FiniteSets, TLC

(***************************************************************************)
(* Bounds of the model.                                                    *)
(***************************************************************************)
\* longest transactions table explored
MaxTxns == 3
\* longest table explored together with every request shape
MaxEdgeTxns == 1
\* longest plot_ids list of a request
MaxPlotIds == 2
\* significand width of the floating-point format (53 in a Python float)
MantissaBits == 4
\* a float is held as an integer count of 2^-FracBits
FracBits == 10

(***************************************************************************)
(* Python values.                                                          *)
(***************************************************************************)
\* Python's None
None == [is_none |-> TRUE]

\* truthiness of an optional object (if not plot: ...)
Truthy(x) == x # None

RECURSIVE Pow2(_)
Pow2(n) == IF n = 0 THEN 1 ELSE 2 * Pow2(n - 1)

RECURSIVE BitLen(_)
BitLen(n) == IF n = 0 THEN 0 ELSE 1 + BitLen(n \div 2)

\* The float nearest to the rational num/den (num >= 0, den > 0, both in
\* units of 2^-FracBits), ties to even: IEEE-754 round-to-nearest-even with
\* a significand of MantissaBits bits.
RoundNearestEven(num, den) ==
    LET whole == num \div den
        e     == IF BitLen(whole) > MantissaBits
                 THEN BitLen(whole) - MantissaBits ELSE 0
        ulp   == Pow2(e)
        q     == num \div (den * ulp)
        rem   == num - q * den * ulp
        up    == \/ 2 * rem > den * ulp
                 \/ (2 * rem = den * ulp /\ q % 2 = 1)
    IN  (IF up THEN q + 1 ELSE q) * ulp

\* float(txn.value): a Numeric(15, 2) value, held in cents, to the nearest float
float(cents) == RoundNearestEven(cents * Pow2(FracBits), 100)

\* a + b on floats
FloatAdd(a, b) ==
    IF a + b >= 0 THEN RoundNearestEven(a + b, 1)
    ELSE 0 - RoundNearestEven(0 - (a + b), 1)

\* a - b on floats
FloatSub(a, b) ==
    IF a - b >= 0 THEN RoundNearestEven(a - b, 1)
    ELSE 0 - RoundNearestEven(b - a, 1)

\* str.lower() of one character
LowerChar(c) ==
    CASE c = "A" -> "a" [] c = "B" -> "b" [] c = "C" -> "c" [] c = "D" -> "d"
      [] c = "E" -> "e" [] c = "F" -> "f" [] c = "G" -> "g" [] c = "H" -> "h"
      [] c = "I" -> "i" [] c = "J" -> "j" [] c = "K" -> "k" [] c = "L" -> "l"
      [] c = "M" -> "m" [] c = "N" -> "n" [] c = "O" -> "o" [] c = "P" -> "p"
      [] c = "Q" -> "q" [] c = "R" -> "r" [] c = "S" -> "s" [] c = "T" -> "t"
      [] c = "U" -> "u" [] c = "V" -> "v" [] c = "W" -> "w" [] c = "X" -> "x"
      [] c = "Y" -> "y" [] c = "Z" -> "z" [] OTHER -> c

\* str.lower()
RECURSIVE lower(_)
lower(s) ==
    IF Len(s) = 0 THEN s
    ELSE LowerChar(SubSeq(s, 1, 1)) \o lower(SubSeq(s, 2, Len(s)))

\* sub in s, on strings
StrContains(sub, s) ==
    \E i \in 1..(Len(s) - Len(sub) + 1) : SubSeq(s, i, i + Len(sub) - 1) = sub

(***************************************************************************)
(* A Python dict, kept in insertion order as a sequence of key/value       *)
(* pairs.                                                                  *)
(***************************************************************************)
DictHas(d, key) == \E i \in 1..Len(d) : d[i].k = key

DictGet(d, key) == d[CHOOSE i \in 1..Len(d) : d[i].k = key].v

\* d[key] = val
DictSet(d, key, val) ==
    IF DictHas(d, key)
    THEN [i \in 1..Len(d) |-> IF d[i].k = key THEN [k |-> key, v |-> val] ELSE d[i]]
    ELSE Append(d, [k |-> key, v |-> val])

\* d[key] += x on a defaultdict(float)
DefaultDictAdd(d, key, x) ==
    DictSet(d, key, FloatAdd(IF DictHas(d, key) THEN DictGet(d, key) ELSE 0, x))

(***************************************************************************)
(* The collaborators' answers: the farms service and the users service.    *)
(***************************************************************************)
\* plot ids a request may name
PlotIdDomain == {1, 2, 3, 4}

\* verify_plot: plots 1 and 2 of farm 100, plot 3 of farm 200, plot 4 is
\* unknown or not active
verify_plot(plot_id) ==
    CASE plot_id = 1 -> [plot_id |-> 1, name |-> "Lote 1", farm_id |-> 100]
      [] plot_id = 2 -> [plot_id |-> 2, name |-> "Lote 2", farm_id |-> 100]
      [] plot_id = 3 -> [plot_id |-> 3, name |-> "Lote 3", farm_id |-> 200]
      [] OTHER -> None

\* get_farm_by_id: farm 100 is available, farm 200 is not
get_farm_by_id(id) ==
    IF id = 100 THEN [farm_id |-> 100, name |-> "Finca A"] ELSE None

\* users that may send a request
UserIds == {1, 2, 3}

\* get_user_role_farm: users 1 and 2 are linked to farm 100, user 2 also to
\* farm 200, user 3 to none
get_user_role_farm(user_id, id) ==
    CASE user_id = 1 /\ id = 100 -> [user_role_farm_id |-> 1, user_role_id |-> 11, farm_id |-> 100]
      [] user_id = 2 /\ id = 100 -> [user_role_farm_id |-> 2, user_role_id |-> 12, farm_id |-> 100]
      [] user_id = 2 /\ id = 200 -> [user_role_farm_id |-> 3, user_role_id |-> 13, farm_id |-> 200]
      [] OTHER -> None

\* get_role_permissions_for_user_role: role 11 holds every permission; role 12
\* may add transactions and holds a permission differing from the report
\* permission by case; role 13 may only read reports
get_role_permissions_for_user_role(user_role_id) ==
    CASE user_role_id = 11 -> {"read_financial_report", "add_transaction",
                               "edit_transaction", "delete_transaction"}
      [] user_role_id = 12 -> {"Read_Financial_Report", "add_transaction"}
      [] user_role_id = 13 -> {"read_financial_report"}
      [] OTHER -> {}

\* get_user_by_id: user 1 is known, the lookup of user 7 raises, any other
\* id is not known
get_user_by_id(user_id) ==
    CASE user_id = 1 -> [user_id |-> 1, name |-> "Ana", email |-> "ana@example.com"]
      [] user_id = 7 -> [raised |-> "ConnectionError"]
      [] OTHER -> None

(***************************************************************************)
(* The database: reference tables and the transactions table.              *)
(***************************************************************************)
\* transaction_states rows, complete
AllTransactionStates ==
    { [transaction_state_id |-> 1, name |-> "Activo"],
      [transaction_state_id |-> 2, name |-> "Inactivo"] }

\* transaction_categories rows with their joined transaction_types row:
\* an income, an expense and an unrecognised type, and a category whose
\* type row is missing
TransactionCategories ==
    { [transaction_category_id |-> 1, name |-> "Venta",
       transaction_type |-> [name |-> "Ingreso"]],
      [transaction_category_id |-> 2, name |-> "Fertilizante",
       transaction_type |-> [name |-> "GASTO"]],
      [transaction_category_id |-> 3, name |-> "Traslado",
       transaction_type |-> [name |-> "Transferencia"]],
      [transaction_category_id |-> 4, name |-> "Huerfana",
       transaction_type |-> None] }

\* a transactions row without its key
TxnFields(plot, category, cents, day, state, creator) ==
    [plot_id |-> plot, transaction_category_id |-> category, value |-> cents,
     transaction_date |-> day, transaction_state_id |-> state,
     creator_id |-> creator, description |-> None]

\* rows the transactions table is filled from: an income and an expense row
\* of value 0.10 for each of two plots, an income and an expense row of
\* value 1.10, one row for each unclassifiable kind (unrecognised type,
\* category without type, category id without row), one row of plot 4
TxnPool ==
    { TxnFields(p, c, 10, 2, 1, 1) : p \in {1, 2}, c \in {1, 2} }
    \cup { TxnFields(2, 1, 110, 2, 1, 1), TxnFields(1, 2, 110, 2, 1, 1) }
    \cup { TxnFields(1, c, 10, 2, 1, 1) : c \in {3, 4, 9} }
    \cup { TxnFields(4, 1, 10, 2, 1, 1) }

\* rows added for short tables: an inactive row, a row dated before the
\* period, a row dated after it, a row created by an unknown user and dated
\* on the last day of the period
EdgeTxnPool ==
    TxnPool \cup { TxnFields(1, 1, 10, 2, 2, 1), TxnFields(1, 1, 10, 1, 1, 1),
                   TxnFields(1, 1, 10, 4, 1, 1), TxnFields(1, 1, 10, 3, 1, 9) }

\* the transactions table holding the given rows, keyed 1..n
TableOf(rows) ==
    [i \in 1..Len(rows) |->
        [transaction_id |-> i, plot_id |-> rows[i].plot_id,
         transaction_category_id |-> rows[i].transaction_category_id,
         value |-> rows[i].value, transaction_date |-> rows[i].transaction_date,
         transaction_state_id |-> rows[i].transaction_state_id,
         creator_id |-> rows[i].creator_id, description |-> rows[i].description]]

(***************************************************************************)
(* Requests.                                                               *)
(***************************************************************************)
FinancialReportRequest(ids, start, end, history) ==
    [plot_ids |-> ids, fechaInicio |-> start, fechaFin |-> end,
     include_transaction_history |-> history]

\* requests of an authorised user over plots 1 and 2 and the unknown plot 4
CoreRequests ==
    { [request |-> FinancialReportRequest(<<1, 2, 4>>, 2, 3, h), user |-> [user_id |-> 1]] :
        h \in BOOLEAN }

\* every request shape: any plot_ids list up to MaxPlotIds, any user
EdgeRequests ==
    { [request |-> FinancialReportRequest(ids, 2, 3, h), user |-> [user_id |-> u]] :
        ids \in UNION { [1..n -> PlotIdDomain] : n \in 1..MaxPlotIds },
        h \in BOOLEAN, u \in UserIds }

\* the requests explored against a given transactions table
RequestInputs(table) ==
    CoreRequests \cup (IF Len(table) <= MaxEdgeTxns THEN EdgeRequests ELSE {})

(***************************************************************************)
(* State.                                                                  *)
(***************************************************************************)
VARIABLES
    db_transactions,        \* the transactions table
    db_transaction_states,  \* the transaction_states table
    pc,                     \* position of generate_financial_report
    request, user,          \* its arguments
    plots, plot_names, farm_id, farm,
    transactions, categories_map,
    plot_financials, farm_totals,
    txn_index,              \* position of the aggregation loop
    report_response,
    response,               \* what generate_financial_report returned
    db_queries,             \* tables queried so far, in order
    user_lookups,           \* creator ids passed to get_user_by_id, in order
    history_txn_ids,        \* ids of the transactions that got a history item
    last_call,              \* the last create, edit or delete call and its outcome
    previous_report,        \* the response of the same request, generated before
    in_flight               \* the edit and the delete request being served, each
                            \* on its own session, and the order of their steps

vars == <<db_transactions, db_transaction_states, pc, request, user, plots,
          plot_names, farm_id, farm, transactions, categories_map,
          plot_financials, farm_totals, txn_index, report_response, response,
          db_queries, user_lookups, history_txn_ids, last_call, previous_report,
          in_flight>>

db_vars == <<db_transactions, db_transaction_states>>

\* what the transaction use cases and a repeated report leave behind
store_vars == <<last_call, previous_report, in_flight>>

\* no edit and no delete request is being served
NoSessions == [edit |-> None, delete |-> None, steps |-> <<>>]

\* the use case's locals
local_vars == <<plots, plot_names, farm_id, farm, transactions, categories_map,
                plot_financials, farm_totals, txn_index, report_response>>

Init ==
    /\ \E n \in 0..MaxTxns :
         \E rows \in [1..n -> IF n <= MaxEdgeTxns THEN EdgeTxnPool ELSE TxnPool] :
            db_transactions = TableOf(rows)
    /\ db_transaction_states \in
         { AllTransactionStates } \cup
         (IF Len(db_transactions) <= MaxEdgeTxns
          THEN { {r \in AllTransactionStates : r.name # "Activo"} } ELSE {})
    /\ pc = "idle"
    /\ request = None /\ user = None
    /\ plots = None /\ plot_names = None /\ farm_id = None /\ farm = None
    /\ transactions = None /\ categories_map = None
    /\ plot_financials = None /\ farm_totals = None
    /\ txn_index = 0
    /\ report_response = None
    /\ response = None
    /\ db_queries = <<>>
    /\ user_lookups = <<>>
    /\ history_txn_ids = <<>>
    /\ last_call = None
    /\ previous_report = None
    /\ in_flight = NoSessions

(***************************************************************************)
(* Responses and the except clauses of generate_financial_report.          *)
(***************************************************************************)
\* except ValueError as e
HandleValueError(message) ==
    [status |-> "error", message |-> message, data |-> None,
     status_code |-> IF StrContains("no encontrado", message) THEN 404 ELSE 400]

\* except PermissionError as e
HandlePermissionError(message) ==
    [status |-> "error", message |-> message, data |-> None, status_code |-> 403]

\* an except clause that answers with the text of the exception
HandleException_echoing == HandleValueError("connection lost")

\* except Exception as e
HandleException ==
    [status |-> "error", message |-> "Error interno del servidor", data |-> None,
     status_code |-> 500]

\* the request arrives
ReceiveRequest ==
    /\ pc = "idle"
    /\ \E input \in RequestInputs(db_transactions) :
          /\ request' = input.request
          /\ user' = input.user
    /\ pc' = "validate_plots"
    /\ UNCHANGED <<db_vars, store_vars, local_vars, response, db_queries, user_lookups, history_txn_ids>>

(***************************************************************************)
(* _validate_and_get_plots                                                 *)
(***************************************************************************)
\* farm_ids keeps the farm of the last verified plot only
RECURSIVE validate_plots_loop_last_farm(_, _)
validate_plots_loop_last_farm(plot_ids, acc) ==
    IF plot_ids = <<>> THEN acc
    ELSE LET plot == verify_plot(Head(plot_ids))
         IN  validate_plots_loop_last_farm(Tail(plot_ids),
                IF ~Truthy(plot) THEN acc
                ELSE [plots |-> Append(acc.plots, plot),
                      plot_names |-> DictSet(acc.plot_names, plot.plot_id, plot.name),
                      farm_ids |-> {plot.farm_id}])

\* the loop of _validate_and_get_plots over the remaining plot_ids
RECURSIVE validate_plots_loop(_, _)
validate_plots_loop(plot_ids, acc) ==
    IF plot_ids = <<>> THEN acc
    ELSE LET plot == verify_plot(Head(plot_ids))
         IN  validate_plots_loop(Tail(plot_ids),
                IF ~Truthy(plot) THEN acc
                ELSE [plots |-> Append(acc.plots, plot),
                      plot_names |-> DictSet(acc.plot_names, plot.plot_id, plot.name),
                      farm_ids |-> acc.farm_ids \cup {plot.farm_id}])

ValidateAndGetPlots ==
    /\ pc = "validate_plots"
    /\ LET r == validate_plots_loop(request.plot_ids,
                   [plots |-> <<>>, plot_names |-> <<>>, farm_ids |-> {}])
       IN  IF r.plots = <<>>
           THEN /\ response' = HandleValueError(
                       "No se encontraron lotes activos con los IDs proporcionados")
                /\ pc' = "done"
                /\ UNCHANGED <<plots, plot_names, farm_id>>
           ELSE IF Cardinality(r.farm_ids) # 1
           THEN /\ response' = HandleValueError(
                       "Los lotes seleccionados pertenecen a diferentes fincas")
                /\ pc' = "done"
                /\ UNCHANGED <<plots, plot_names, farm_id>>
           ELSE /\ plots' = r.plots
                /\ plot_names' = r.plot_names
                /\ farm_id' = CHOOSE f \in r.farm_ids : TRUE
                /\ pc' = "get_farm"
                /\ UNCHANGED response
    /\ UNCHANGED <<db_vars, store_vars, request, user, farm, transactions, categories_map,
                   plot_financials, farm_totals, txn_index, report_response,
                   db_queries, user_lookups, history_txn_ids>>

\* farm = get_farm_by_id(farm_id)
GetFarm ==
    /\ pc = "get_farm"
    /\ LET f == get_farm_by_id(farm_id)
       IN  IF ~Truthy(f)
           THEN /\ response' =
                     [status |-> "error",
                      message |-> "La finca asociada a los lotes no existe o no está disponible",
                      data |-> None, status_code |-> 404]
                /\ pc' = "done"
                /\ UNCHANGED farm
           ELSE /\ farm' = f
                /\ pc' = "validate_permissions"
                /\ UNCHANGED response
    /\ UNCHANGED <<db_vars, store_vars, request, user, plots, plot_names, farm_id,
                   transactions, categories_map, plot_financials, farm_totals,
                   txn_index, report_response, db_queries, user_lookups, history_txn_ids>>

(***************************************************************************)
(* _validate_user_permissions                                              *)
(***************************************************************************)
\* the permission names compared without regard to case
validate_user_permissions_ignoring_case(usr, id) ==
    LET user_role_farm == get_user_role_farm(usr.user_id, id)
    IN  IF ~Truthy(user_role_farm)
        THEN [raised |-> TRUE,
              message |-> "El usuario " \o ToString(usr.user_id)
                          \o " no está asociado con la finca " \o ToString(id)]
        ELSE IF "read_financial_report" \notin
                  { lower(p) : p \in get_role_permissions_for_user_role(
                                        user_role_farm.user_role_id) }
        THEN [raised |-> TRUE,
              message |-> "No tienes permiso para ver reportes financieros"]
        ELSE [raised |-> FALSE, message |-> ""]

\* returns normally or raises PermissionError(message)
validate_user_permissions(usr, id) ==
    LET user_role_farm == get_user_role_farm(usr.user_id, id)
    IN  IF ~Truthy(user_role_farm)
        THEN [raised |-> TRUE,
              message |-> "El usuario " \o ToString(usr.user_id)
                          \o " no está asociado con la finca " \o ToString(id)]
        ELSE IF "read_financial_report" \notin
                  get_role_permissions_for_user_role(user_role_farm.user_role_id)
        THEN [raised |-> TRUE,
              message |-> "No tienes permiso para ver reportes financieros"]
        ELSE [raised |-> FALSE, message |-> ""]

ValidateUserPermissions ==
    /\ pc = "validate_permissions"
    /\ LET r == validate_user_permissions(user, farm_id)
       IN  IF r.raised
           THEN /\ response' = HandlePermissionError(r.message)
                /\ pc' = "done"
           ELSE /\ pc' = "fetch"
                /\ UNCHANGED response
    /\ UNCHANGED <<db_vars, store_vars, request, user, local_vars, db_queries, user_lookups,
                   history_txn_ids>>

(***************************************************************************)
(* _get_transactions_and_categories                                        *)
(***************************************************************************)
\* utils/state.py: the row of that name, None when there is none
get_transaction_state(states, state_name) ==
    IF \E r \in states : r.name = state_name
    THEN CHOOSE r \in states : r.name = state_name
    ELSE None

Range(seq) == { seq[i] : i \in 1..Len(seq) }

\* the period taken without its last day
query_transactions_before_end(table, req, active_transaction_state) ==
    SelectSeq(table, LAMBDA t :
        /\ t.plot_id \in Range(req.plot_ids)
        /\ t.transaction_date >= req.fechaInicio
        /\ t.transaction_date < req.fechaFin
        /\ t.transaction_state_id = active_transaction_state.transaction_state_id)

\* db.query(Transactions).filter(...).all()
query_transactions(table, req, active_transaction_state) ==
    SelectSeq(table, LAMBDA t :
        /\ t.plot_id \in Range(req.plot_ids)
        /\ t.transaction_date >= req.fechaInicio
        /\ t.transaction_date <= req.fechaFin
        /\ t.transaction_state_id = active_transaction_state.transaction_state_id)

\* {cat.transaction_category_id: cat for cat in categories_with_types_query}
query_categories_map(txns) ==
    LET category_ids == { txns[i].transaction_category_id : i \in 1..Len(txns) }
        found == { c \in TransactionCategories : c.transaction_category_id \in category_ids }
    IN  [id \in { c.transaction_category_id : c \in found } |->
            CHOOSE c \in found : c.transaction_category_id = id]

\* a missing category id answered with a placeholder category
categories_get_with_default(cmap, category_id) ==
    IF category_id \in DOMAIN cmap THEN cmap[category_id]
    ELSE [transaction_category_id |-> category_id, name |-> "Sin categoria",
          transaction_type |-> [name |-> "Gasto"]]

\* categories_map.get(category_id)
categories_get(cmap, category_id) ==
    IF category_id \in DOMAIN cmap THEN cmap[category_id] ELSE None

\* every order of the rows
Orders(rows) ==
    { [i \in 1..Len(rows) |-> rows[p[i]]] :
        p \in { f \in [1..Len(rows) -> 1..Len(rows)] :
                  \A a, b \in 1..Len(rows) : f[a] = f[b] => a = b } }

\* .all() of a query without order_by: the rows come in table order, and in
\* any order when the request is repeated
fetch_orders(rows) == IF previous_report = None THEN { rows } ELSE Orders(rows)

GetTransactionsAndCategories ==
    /\ pc = "fetch"
    /\ LET active_transaction_state == get_transaction_state(db_transaction_states, "Activo")
       IN  IF ~Truthy(active_transaction_state)
           THEN /\ response' = HandleValueError(
                       "Estado 'Activo' para Transactions no encontrado")
                /\ pc' = "done"
                /\ db_queries' = Append(db_queries, "transaction_states")
                /\ UNCHANGED <<transactions, categories_map>>
           ELSE \/ \E txns \in fetch_orders(query_transactions(db_transactions, request,
                                                  active_transaction_state)) :
                       /\ transactions' = txns
                       /\ categories_map' = query_categories_map(txns)
                       /\ db_queries' = db_queries \o
                             (IF txns # <<>>
                              THEN <<"transaction_states", "transactions",
                                     "transaction_categories">>
                              ELSE <<"transaction_states", "transactions">>)
                       /\ pc' = "initialize"
                       /\ UNCHANGED response
                \* the transactions query raises (connection lost)
                \/ /\ response' = HandleException
                   /\ pc' = "done"
                   /\ db_queries' = db_queries \o <<"transaction_states", "transactions">>
                   /\ UNCHANGED <<transactions, categories_map>>
    /\ UNCHANGED <<db_vars, store_vars, request, user, plots, plot_names, farm_id, farm,
                   plot_financials, farm_totals, txn_index, report_response,
                   user_lookups, history_txn_ids>>

(***************************************************************************)
(* generate_financial_report, lines 194-212: the accumulators              *)
(***************************************************************************)
RECURSIVE initial_plot_financials(_, _, _)
initial_plot_financials(plot_list, names, acc) ==
    IF plot_list = <<>> THEN acc
    ELSE LET plot == Head(plot_list)
         IN  initial_plot_financials(Tail(plot_list), names,
                DictSet(acc, plot.plot_id,
                    [plot_id |-> plot.plot_id,
                     plot_name |-> DictGet(names, plot.plot_id),
                     ingresos |-> 0, gastos |-> 0, balance |-> 0,
                     ingresos_por_categoria |-> <<>>,
                     gastos_por_categoria |-> <<>>]))

InitializeStructures ==
    /\ pc = "initialize"
    /\ farm_totals' = [ingresos |-> 0, gastos |-> 0,
                       ingresos_categorias |-> <<>>, gastos_categorias |-> <<>>]
    /\ plot_financials' = initial_plot_financials(plots, plot_names, <<>>)
    /\ txn_index' = 1
    /\ pc' = "process"
    /\ UNCHANGED <<db_vars, store_vars, request, user, plots, plot_names, farm_id, farm,
                   transactions, categories_map, report_response, response,
                   db_queries, user_lookups, history_txn_ids>>

(***************************************************************************)
(* _process_transaction                                                    *)
(***************************************************************************)
\* every type name that is not an income name taken for an expense name
transaction_kind_else_expense(type_name) ==
    IF lower(type_name) \in {"ingreso", "income", "revenue"} THEN "ingreso"
    ELSE "gasto"

\* the branch taken on txn_type_obj.name.lower()
transaction_kind(type_name) ==
    IF lower(type_name) \in {"ingreso", "income", "revenue"} THEN "ingreso"
    ELSE IF lower(type_name) \in {"gasto", "expense", "cost"} THEN "gasto"
    ELSE "desconocido"

\* the income branch with the farm total added to gastos
add_income_to_farm_gastos(pf, ft, plot_id, category_name, monto) ==
    [plot_financials |-> DictSet(pf, plot_id,
        [DictGet(pf, plot_id) EXCEPT
           !.ingresos = FloatAdd(@, monto),
           !.ingresos_por_categoria = DefaultDictAdd(@, category_name, monto)]),
     farm_totals |->
        [ft EXCEPT
           !.gastos = FloatAdd(@, monto),
           !.ingresos_categorias = DefaultDictAdd(@, category_name, monto)]]

\* the income branch: the four "ingresos" accumulators += monto
add_income(pf, ft, plot_id, category_name, monto) ==
    [plot_financials |-> DictSet(pf, plot_id,
        [DictGet(pf, plot_id) EXCEPT
           !.ingresos = FloatAdd(@, monto),
           !.ingresos_por_categoria = DefaultDictAdd(@, category_name, monto)]),
     farm_totals |->
        [ft EXCEPT
           !.ingresos = FloatAdd(@, monto),
           !.ingresos_categorias = DefaultDictAdd(@, category_name, monto)]]

\* the expense branch: the four "gastos" accumulators += monto
add_expense(pf, ft, plot_id, category_name, monto) ==
    [plot_financials |-> DictSet(pf, plot_id,
        [DictGet(pf, plot_id) EXCEPT
           !.gastos = FloatAdd(@, monto),
           !.gastos_por_categoria = DefaultDictAdd(@, category_name, monto)]),
     farm_totals |->
        [ft EXCEPT
           !.gastos = FloatAdd(@, monto),
           !.gastos_categorias = DefaultDictAdd(@, category_name, monto)]]

process_transaction(txn, cmap, pf, ft) ==
    LET skipped == [plot_financials |-> pf, farm_totals |-> ft]
        plot_id == txn.plot_id
    IN  IF ~DictHas(pf, plot_id) THEN skipped
        ELSE
        LET txn_category_obj == categories_get(cmap, txn.transaction_category_id)
        IN  IF ~Truthy(txn_category_obj) \/ ~Truthy(txn_category_obj.transaction_type)
            THEN skipped
            ELSE
            LET txn_type_obj  == txn_category_obj.transaction_type
                category_name == txn_category_obj.name
                monto         == float(txn.value)
                kind          == transaction_kind(txn_type_obj.name)
            IN  IF kind = "ingreso"
                THEN add_income(pf, ft, plot_id, category_name, monto)
                ELSE IF kind = "gasto"
                THEN add_expense(pf, ft, plot_id, category_name, monto)
                ELSE skipped

\* one iteration of: for txn in transactions: _process_transaction(...)
ProcessTransaction ==
    /\ pc = "process"
    /\ txn_index <= Len(transactions)
    /\ LET r == process_transaction(transactions[txn_index], categories_map,
                                    plot_financials, farm_totals)
       IN  /\ plot_financials' = r.plot_financials
           /\ farm_totals' = r.farm_totals
    /\ txn_index' = txn_index + 1
    /\ UNCHANGED <<db_vars, store_vars, pc, request, user, plots, plot_names, farm_id, farm,
                   transactions, categories_map, report_response, response,
                   db_queries, user_lookups, history_txn_ids>>

(***************************************************************************)
(* _build_plot_financials_list and the report, lines 219-243               *)
(***************************************************************************)
\* [FinancialCategoryBreakdown(category_name=k, monto=v) for k, v in d.items()]
breakdown_list(d) ==
    [i \in 1..Len(d) |-> [category_name |-> d[i].k, monto |-> d[i].v]]

\* the balance taken as gastos - ingresos
plot_financial_data_swapped(data) ==
    [data EXCEPT
       !.balance = FloatSub(data.gastos, data.ingresos),
       !.ingresos_por_categoria = breakdown_list(@),
       !.gastos_por_categoria = breakdown_list(@)]

\* the body of the loop of _build_plot_financials_list, on one data dict
plot_financial_data(data) ==
    [data EXCEPT
       !.balance = FloatSub(data.ingresos, data.gastos),
       !.ingresos_por_categoria = breakdown_list(@),
       !.gastos_por_categoria = breakdown_list(@)]

build_plot_financials_list(pf) ==
    [i \in 1..Len(pf) |-> plot_financial_data(pf[i].v)]

build_farm_summary(ft) ==
    [total_ingresos |-> ft.ingresos,
     total_gastos |-> ft.gastos,
     balance_financiero |-> FloatSub(ft.ingresos, ft.gastos),
     ingresos_por_categoria |-> breakdown_list(ft.ingresos_categorias),
     gastos_por_categoria |-> breakdown_list(ft.gastos_categorias)]

\* the history built whatever the request says
after_report_response_always_history(req) == "history"

\* if request.include_transaction_history: the step after the report is
\* assembled
after_report_response(req) ==
    IF req.include_transaction_history THEN "history" ELSE "respond"

BuildResponse ==
    /\ pc = "process"
    /\ txn_index > Len(transactions)
    /\ report_response' =
          [finca_nombre |-> farm.name,
           lotes_incluidos |->
               [i \in 1..Len(plots) |-> DictGet(plot_names, plots[i].plot_id)],
           \* dates are day numbers; isoformat() prints the number
           periodo |-> ToString(request.fechaInicio) \o " a "
                       \o ToString(request.fechaFin),
           plot_financials |-> build_plot_financials_list(plot_financials),
           farm_summary |-> build_farm_summary(farm_totals),
           analysis |-> None,
           transaction_history |-> None]
    \* _build_plot_financials_list rewrites the dicts of plot_financials in place
    /\ plot_financials' =
          [i \in 1..Len(plot_financials) |->
              [k |-> plot_financials[i].k,
               v |-> plot_financial_data(plot_financials[i].v)]]
    /\ pc' = after_report_response(request)
    /\ UNCHANGED <<db_vars, store_vars, request, user, plots, plot_names, farm_id, farm,
                   transactions, categories_map, farm_totals, txn_index,
                   response, db_queries, user_lookups, history_txn_ids>>

(***************************************************************************)
(* _build_transaction_history                                              *)
(***************************************************************************)
\* get_creator_info without its fallback name: a creator the lookup does not
\* find is read from the cache, which raises KeyError
get_creator_info_without_fallback(creator_id, creator_cache) ==
    IF DictHas(creator_cache, creator_id)
    THEN [name |-> DictGet(creator_cache, creator_id).name,
          creator_cache |-> creator_cache, lookups |-> <<>>, raised |-> FALSE]
    ELSE LET user_obj == get_user_by_id(creator_id)
         IN  IF "name" \in DOMAIN user_obj
             THEN [name |-> user_obj.name,
                   creator_cache |-> DictSet(creator_cache, creator_id, user_obj),
                   lookups |-> <<creator_id>>, raised |-> FALSE]
             ELSE [name |-> "", creator_cache |-> creator_cache,
                   lookups |-> <<creator_id>>, raised |-> TRUE]

\* get_creator_info: the display name, the cache and the lookups made; an
\* exception of the lookup leaves the function
get_creator_info(creator_id, creator_cache) ==
    IF ~DictHas(creator_cache, creator_id)
    THEN LET user_obj == get_user_by_id(creator_id)
         IN  IF "raised" \in DOMAIN user_obj
             THEN [name |-> "", creator_cache |-> creator_cache,
                   lookups |-> <<creator_id>>, raised |-> TRUE]
             ELSE IF Truthy(user_obj)
             THEN [name |-> user_obj.name,
                   creator_cache |-> DictSet(creator_cache, creator_id, user_obj),
                   lookups |-> <<creator_id>>, raised |-> FALSE]
             ELSE [name |-> "Usuario #" \o ToString(creator_id),
                   creator_cache |-> creator_cache,
                   lookups |-> <<creator_id>>, raised |-> FALSE]
    ELSE [name |-> DictGet(creator_cache, creator_id).name,
          creator_cache |-> creator_cache,
          lookups |-> <<>>, raised |-> FALSE]

RECURSIVE build_transaction_history(_, _, _, _, _)
build_transaction_history(txns, cmap, names, farm_name, acc) ==
    IF txns = <<>> THEN acc
    ELSE
    LET txn == Head(txns)
        plot_id == txn.plot_id
        plot_name == IF DictHas(names, plot_id) THEN DictGet(names, plot_id)
                     ELSE "Lote #" \o ToString(plot_id)
        txn_category_obj == categories_get(cmap, txn.transaction_category_id)
    IN  IF ~Truthy(txn_category_obj) \/ ~Truthy(txn_category_obj.transaction_type)
        THEN build_transaction_history(Tail(txns), cmap, names, farm_name, acc)
        ELSE
        LET txn_type_obj == txn_category_obj.transaction_type
            creator == get_creator_info(txn.creator_id, acc.creator_cache)
            history_item ==
                [date |-> txn.transaction_date,
                 plot_name |-> plot_name,
                 farm_name |-> farm_name,
                 transaction_type |-> txn_type_obj.name,
                 transaction_category |-> txn_category_obj.name,
                 creator_name |-> creator.name,
                 value |-> float(txn.value)]
        IN  IF creator.raised
            \* except Exception as e: ... continue
            THEN build_transaction_history(Tail(txns), cmap, names, farm_name,
                     [acc EXCEPT !.lookups = @ \o creator.lookups])
            ELSE
            build_transaction_history(Tail(txns), cmap, names, farm_name,
                [transaction_history |-> Append(acc.transaction_history, history_item),
                 creator_cache |-> creator.creator_cache,
                 lookups |-> acc.lookups \o creator.lookups,
                 txn_ids |-> Append(acc.txn_ids, txn.transaction_id)])

BuildTransactionHistory ==
    /\ pc = "history"
    /\ LET r == build_transaction_history(transactions, categories_map,
                    plot_names, farm.name,
                    [transaction_history |-> <<>>, creator_cache |-> <<>>,
                     lookups |-> <<>>, txn_ids |-> <<>>])
       IN  /\ report_response' =
                 [report_response EXCEPT !.transaction_history = r.transaction_history]
           /\ user_lookups' = user_lookups \o r.lookups
           /\ history_txn_ids' = r.txn_ids
    /\ pc' = "respond"
    /\ UNCHANGED <<db_vars, store_vars, request, user, plots, plot_names, farm_id, farm,
                   transactions, categories_map, plot_financials, farm_totals,
                   txn_index, response, db_queries>>

\* return create_response("success", ..., data=jsonable_encoder(report_response))
Respond ==
    /\ pc = "respond"
    /\ response' = [status |-> "success",
                    message |-> "Reporte financiero generado correctamente",
                    data |-> report_response, status_code |-> 200]
    /\ pc' = "done"
    /\ UNCHANGED <<db_vars, store_vars, request, user, local_vars, db_queries, user_lookups,
                   history_txn_ids>>

Next ==
    \/ ReceiveRequest
    \/ ValidateAndGetPlots
    \/ GetFarm
    \/ ValidateUserPermissions
    \/ GetTransactionsAndCategories
    \/ InitializeStructures
    \/ ProcessTransaction
    \/ BuildResponse
    \/ BuildTransactionHistory
    \/ Respond

Spec == Init /\ [][Next]_vars

(***************************************************************************)
(* The transaction use cases: values shared by create, edit and delete.    *)
(***************************************************************************)
\* rows a store explored with the transaction use cases may start with
MaxStoreTxns == 1
\* longest description the edit use case accepts
EditDescriptionLimit == 50
\* max_length of description in the request schemas
SchemaDescriptionLimit == 255

\* an Optional[...] field that is set
Some(v) == [is_none |-> FALSE, value |-> v]

\* create_response(status, message, data, status_code)
create_response(status, message, data, status_code) ==
    [status |-> status, message |-> message, data |-> data,
     status_code |-> status_code]

\* session_token_invalid_response()
session_token_invalid_response ==
    create_response("error", "Credenciales expiradas, cerrando sesión.", None, 401)

\* what the server answers when a use case lets an exception escape
internal_server_error_response ==
    create_response("error", "Internal Server Error", None, 500)

\* session tokens a caller may send: none, an expired one, one per user
SessionTokens == {"", "expired", "token-1", "token-2", "token-3"}

\* verify_session_token: the user of the token, None for any other token
verify_session_token(session_token) ==
    CASE session_token = "token-1" -> [user_id |-> 1]
      [] session_token = "token-2" -> [user_id |-> 2]
      [] session_token = "token-3" -> [user_id |-> 3]
      [] OTHER -> None

\* get_user_role_farm_state_by_name("Activo"): the state, None when the farms
\* service does not answer
UrfStateAnswers == { [user_role_farm_state_id |-> 1], None }

\* the outcome of a use case: its response, the committed table, the
\* commits and rollbacks made, the exception it let escape, and the
\* collaborators called and tables queried, in order
Outcome(resp, table, commits, rollbacks) ==
    [response |-> resp, table |-> table, commits |-> commits,
     rollbacks |-> rollbacks, raised |-> "", calls |-> <<>>]

\* the outcome of what follows the given calls to the collaborators and
\* queries of the store
After(calls, outcome) == [outcome EXCEPT !.calls = calls \o @]

\* a string of n characters
RECURSIVE Text(_)
Text(n) ==
    IF n = 0 THEN ""
    ELSE LET half == Text(n \div 2)
         IN  half \o half \o (IF n % 2 = 1 THEN "x" ELSE "")

\* a float written to a Numeric(15, 2) column: rounded to whole cents
numeric_15_2(x) == (2 * 100 * x + Pow2(FracBits)) \div (2 * Pow2(FracBits))

\* db.query(Transactions).filter(transaction_id == id).first()
query_transaction(table, id) ==
    IF \E i \in 1..Len(table) : table[i].transaction_id = id
    THEN table[CHOOSE i \in 1..Len(table) : table[i].transaction_id = id]
    ELSE None

\* db.query(TransactionCategories).filter(transaction_category_id == id).first()
query_category(id) ==
    IF \E c \in TransactionCategories : c.transaction_category_id = id
    THEN CHOOSE c \in TransactionCategories : c.transaction_category_id = id
    ELSE None

(***************************************************************************)
(* create_transaction_use_case                                             *)
(***************************************************************************)
CreateTransactionRequest(plot, category, description, value, day) ==
    [plot_id |-> plot, transaction_category_id |-> category,
     description |-> description, value |-> value, transaction_date |-> day]

\* the schema's constraint: description of at most 255 characters
CreateTransactionRequestIsValid(req) ==
    req.description = None \/ Len(req.description.value) <= SchemaDescriptionLimit

\* the role's permissions do not hold add_transaction
lacks_add_permission(permissions) == "add_transaction" \notin permissions

\* if request.value <= 0
value_not_positive(value) == value <= 0

\* an insert whose failed commit is answered 500 without the rollback: the
\* added row stays
create_transaction_insert_without_rollback(req, usr, table, states, commit_raises) ==
    Outcome(create_response("error", "Error al crear la transacción: commit", None, 500),
            Append(table,
                [transaction_id |-> Len(table) + 1,
                 plot_id |-> req.plot_id,
                 transaction_category_id |-> req.transaction_category_id,
                 value |-> numeric_15_2(req.value),
                 transaction_date |-> req.transaction_date,
                 transaction_state_id |-> 1,
                 creator_id |-> usr.user_id,
                 description |-> req.description]),
            0, 0)

\* steps 6 to 9: category, type, value, state, insert and commit
create_transaction_insert(req, usr, table, states, commit_raises) ==
    After(<<"db.query(TransactionCategories)">>,
    LET transaction_category == query_category(req.transaction_category_id)
    IN  IF ~Truthy(transaction_category)
        THEN Outcome(create_response("error",
                 "La categoría de transacción especificada no existe", None, 400),
                 table, 0, 0)
        ELSE After(<<"db.query(TransactionTypes)">>,
        LET transaction_type == transaction_category.transaction_type
        IN  IF ~Truthy(transaction_type)
            THEN Outcome(create_response("error",
                     "El tipo de transacción asociado a la categoría no existe", None, 400),
                     table, 0, 0)
            ELSE IF value_not_positive(req.value)
            THEN Outcome(create_response("error",
                     "El valor de la transacción debe ser positivo", None, 400),
                     table, 0, 0)
            ELSE After(<<"db.query(TransactionStates)">>,
            LET active_transaction_state == get_transaction_state(states, "Activo")
            IN  IF ~Truthy(active_transaction_state)
                THEN Outcome(create_response("error",
                         "Estado 'Activo' para Transactions no encontrado", None, 500),
                         table, 0, 0)
                ELSE IF commit_raises
                THEN Outcome(create_response("error",
                         "Error al crear la transacción: commit", None, 500),
                         table, 0, 1)
                ELSE
                LET new_transaction ==
                        [transaction_id |-> Len(table) + 1,
                         plot_id |-> req.plot_id,
                         transaction_category_id |->
                             transaction_category.transaction_category_id,
                         value |-> numeric_15_2(req.value),
                         transaction_date |-> req.transaction_date,
                         transaction_state_id |->
                             active_transaction_state.transaction_state_id,
                         creator_id |-> usr.user_id,
                         description |-> req.description]
                    response_data ==
                        [transaction_id |-> new_transaction.transaction_id,
                         plot_id |-> new_transaction.plot_id,
                         transaction_type_name |-> transaction_type.name,
                         transaction_category_name |-> transaction_category.name,
                         description |-> new_transaction.description,
                         value |-> float(new_transaction.value),
                         transaction_date |-> new_transaction.transaction_date,
                         transaction_state |-> active_transaction_state.name]
                IN  Outcome(create_response("success",
                        "Transacción creada correctamente", response_data, 200),
                        Append(table, new_transaction), 1, 0))))

create_transaction_use_case(req, session_token, urf_state, table, states, commit_raises) ==
    IF session_token = ""
    THEN Outcome(create_response("error", "Token de sesión faltante", None, 401),
                 table, 0, 0)
    ELSE After(<<"verify_session_token">>,
    LET usr == verify_session_token(session_token)
    IN  IF ~Truthy(usr)
        THEN Outcome(session_token_invalid_response, table, 0, 0)
        ELSE After(<<"get_user_role_farm_state_by_name">>,
        IF ~Truthy(urf_state)
        THEN Outcome(create_response("error",
                 "Estado 'Activo' para user_role_farm no encontrado", None, 400),
                 table, 0, 0)
        ELSE After(<<"verify_plot">>,
        LET plot == verify_plot(req.plot_id)
        IN  IF ~Truthy(plot)
            THEN Outcome(create_response("error",
                     "El lote especificado no existe o no está activo", None, 404),
                     table, 0, 0)
            ELSE After(<<"get_user_role_farm">>,
            LET user_role_farm == get_user_role_farm(usr.user_id, plot.farm_id)
            IN  IF ~Truthy(user_role_farm)
                THEN Outcome(create_response("error",
                         "No tienes permisos para agregar transacciones", None, 403),
                         table, 0, 0)
                ELSE After(<<"get_role_permissions_for_user_role">>,
                IF lacks_add_permission(
                            get_role_permissions_for_user_role(user_role_farm.user_role_id))
                THEN Outcome(create_response("error",
                         "No tienes permiso para agregar transacciones", None, 403),
                         table, 0, 0)
                ELSE create_transaction_insert(req, usr, table, states, commit_raises))))))

(***************************************************************************)
(* edit_transaction_use_case and delete_transaction_use_case               *)
(***************************************************************************)
UpdateTransactionRequest(id, category, description, value, day) ==
    [transaction_id |-> id, transaction_category_id |-> category,
     description |-> description, value |-> value, transaction_date |-> day]

\* the schema's constraints: description of at most 255 characters and the
\* validator value_must_be_positive
UpdateTransactionRequestIsValid(req) ==
    /\ req.description = None \/ Len(req.description.value) <= SchemaDescriptionLimit
    /\ req.value = None \/ req.value.value > 0

DeleteTransactionRequest(id) == [transaction_id |-> id]

\* a use case lets exc escape: nothing is committed by it
Escaped(exc, table) ==
    [response |-> internal_server_error_response, table |-> table,
     commits |-> 0, rollbacks |-> 0, raised |-> exc, calls |-> <<>>]

\* obj.name is defined: a Transactions row has its mapped columns only
HasAttr(obj, name) == name \in DOMAIN obj

\* the row's key compared with the state id
transaction_is_inactive_by_key(transaction, inactive_transaction_state) ==
    transaction.transaction_id = inactive_transaction_state.transaction_state_id

\* transaction.transaction_state_id == inactive_transaction_state.transaction_state_id
transaction_is_inactive(transaction, inactive_transaction_state) ==
    transaction.transaction_state_id = inactive_transaction_state.transaction_state_id

\* the farm of the row's plot, as if the row named its entity
entity_farm_id_of_plot(transaction) ==
    LET plot_info == verify_plot(transaction.plot_id)
    IN  IF ~Truthy(plot_info)
        THEN [calls |-> <<"verify_plot">>, raised |-> "",
              response |-> create_response("error",
                  "El lote asociado a esta transacción no existe o no está activo",
                  None, 404),
              farm_id |-> None]
        ELSE [calls |-> <<"verify_plot">>, raised |-> "", response |-> None,
                   farm_id |-> plot_info.farm_id]

\* "Determinar el farm_id según el tipo de entidad de la transacción", the same
\* lines in the edit and the delete use case: the farm id, an error response,
\* or the AttributeError of reading an attribute the row does not have
entity_farm_id(transaction) ==
    IF ~HasAttr(transaction, "entity_type")
    THEN [calls |-> <<>>, raised |-> "AttributeError", response |-> None, farm_id |-> None]
    ELSE IF transaction.entity_type = "farm"
    THEN [calls |-> <<>>, raised |-> "", response |-> None,
          farm_id |-> transaction.entity_id]
    ELSE IF transaction.entity_type = "plot"
    THEN LET plot_info == verify_plot(transaction.entity_id)
         IN  IF ~Truthy(plot_info)
             THEN [calls |-> <<"verify_plot">>, raised |-> "",
                   response |-> create_response("error",
                       "El lote asociado a esta transacción no existe o no está activo",
                       None, 404),
                   farm_id |-> None]
             ELSE [calls |-> <<"verify_plot">>, raised |-> "", response |-> None,
                   farm_id |-> plot_info.farm_id]
    ELSE [calls |-> <<>>, raised |-> "",
          response |-> create_response("error", "Tipo de entidad no soportado", None, 400),
          farm_id |-> None]

\* db.commit() of a session that loaded the row and changed it: the UPDATE
\* writes the columns that were changed, to the row of that transaction_id
flush_changes(table, loaded, changed) ==
    [i \in 1..Len(table) |->
        IF table[i].transaction_id = loaded.transaction_id
        THEN [column \in DOMAIN table[i] |->
                 IF changed[column] # loaded[column]
                 THEN changed[column] ELSE table[i][column]]
        ELSE table[i]]

\* step 8 of delete: the state set to Inactivo and committed
delete_transaction_commit(transaction, inactive_transaction_state, table, commit_raises) ==
    IF commit_raises
    THEN Outcome(create_response("error",
             "Error al eliminar la transacción: commit", None, 500), table, 0, 1)
    ELSE Outcome(create_response("success", "Transacción eliminada correctamente",
             [transaction_id |-> transaction.transaction_id], 200),
             flush_changes(table, transaction,
                 [transaction EXCEPT !.transaction_state_id =
                      inactive_transaction_state.transaction_state_id]),
             1, 0)

\* delete_transaction_use_case from line 23 on: the transaction is the object
\* the session loaded, the table is the store at the time of the commit
delete_transaction_loaded(usr, transaction, table, states, commit_raises) ==
            IF ~Truthy(transaction)
            THEN Outcome(create_response("error",
                     "La transacción especificada no existe", None, 404), table, 0, 0)
            ELSE After(<<"db.query(TransactionStates)">>,
            LET inactive_transaction_state == get_transaction_state(states, "Inactivo")
            IN  IF ~Truthy(inactive_transaction_state)
                THEN Outcome(create_response("error",
                         "Estado 'Inactivo' para Transactions no encontrado", None, 500),
                         table, 0, 0)
                ELSE IF transaction_is_inactive(transaction, inactive_transaction_state)
                THEN Outcome(create_response("error",
                         "La transacción ya está eliminada", None, 400), table, 0, 0)
                ELSE
                LET entity == entity_farm_id(transaction)
                IN  After(entity.calls,
                    IF entity.raised # "" THEN Escaped(entity.raised, table)
                    ELSE IF entity.response # None
                    THEN Outcome(entity.response, table, 0, 0)
                    ELSE After(<<"get_user_role_farm">>,
                    LET user_role_farm == get_user_role_farm(usr.user_id, entity.farm_id)
                    IN  IF ~Truthy(user_role_farm)
                        THEN Outcome(create_response("error",
                                 "No tienes permisos para eliminar transacciones en esta finca",
                                 None, 403), table, 0, 0)
                        ELSE After(<<"get_role_permissions_for_user_role">>,
                        IF "delete_transaction" \notin
                                  get_role_permissions_for_user_role(
                                      user_role_farm.user_role_id)
                        THEN Outcome(create_response("error",
                                 "No tienes permiso para eliminar transacciones",
                                 None, 403), table, 0, 0)
                        ELSE delete_transaction_commit(transaction,
                                 inactive_transaction_state, table, commit_raises)))))

\* a delete that loads the transaction before it looks at the token
delete_transaction_loading_first(req, session_token, table, states, commit_raises) ==
    After(<<"db.query(Transactions)">>,
    IF session_token = ""
    THEN Outcome(create_response("error", "Token de sesión faltante", None, 401),
                 table, 0, 0)
    ELSE After(<<"verify_session_token">>,
    LET usr == verify_session_token(session_token)
    IN  IF ~Truthy(usr)
        THEN Outcome(session_token_invalid_response, table, 0, 0)
        ELSE delete_transaction_loaded(usr,
                 query_transaction(table, req.transaction_id), table, states,
                 commit_raises)))

delete_transaction_use_case(req, session_token, table, states, commit_raises) ==
    IF session_token = ""
    THEN Outcome(create_response("error", "Token de sesión faltante", None, 401),
                 table, 0, 0)
    ELSE After(<<"verify_session_token">>,
    LET usr == verify_session_token(session_token)
    IN  IF ~Truthy(usr)
        THEN Outcome(session_token_invalid_response, table, 0, 0)
        ELSE After(<<"db.query(Transactions)">>,
             delete_transaction_loaded(usr,
                 query_transaction(table, req.transaction_id), table, states,
                 commit_raises)))

\* if len(request.description) > 50
description_too_long(description) == Len(description) > EditDescriptionLimit

\* step 7 of edit, lines 78-106: the provided fields written to the row one
\* after the other; an invalid field returns at once
edit_transaction_fields(req, transaction) ==
    LET transaction_category ==
            IF req.transaction_category_id # None
            THEN query_category(req.transaction_category_id.value) ELSE None
        with_category ==
            IF req.transaction_category_id # None /\ Truthy(transaction_category)
            THEN [transaction EXCEPT !.transaction_category_id =
                      transaction_category.transaction_category_id]
            ELSE transaction
        with_description ==
            IF req.description # None
            THEN [with_category EXCEPT !.description = req.description]
            ELSE with_category
        with_value ==
            IF req.value # None
            THEN [with_description EXCEPT !.value = numeric_15_2(req.value.value)]
            ELSE with_description
        with_date ==
            IF req.transaction_date # None
            THEN [with_value EXCEPT !.transaction_date = req.transaction_date.value]
            ELSE with_value
    IN  IF req.transaction_category_id # None /\ ~Truthy(transaction_category)
        THEN [transaction |-> transaction,
              response |-> create_response("error",
                  "La categoría de transacción especificada no existe", None, 400)]
        ELSE IF req.description # None /\ description_too_long(req.description.value)
        THEN [transaction |-> with_category,
              response |-> create_response("error",
                  "La descripción no puede exceder los 50 caracteres", None, 400)]
        ELSE IF req.value # None /\ value_not_positive(req.value.value)
        THEN [transaction |-> with_description,
              response |-> create_response("error",
                  "El valor de la transacción debe ser positivo", None, 400)]
        ELSE [transaction |-> with_date, response |-> None]

\* lines 108-144: the commit, then the response assembled from the row;
\* TransactionResponse is built without its required plot_id, the
\* ValidationError is caught by the except clause after the commit
edit_transaction_commit(req, transaction, table, commit_raises) ==
    After(IF req.transaction_category_id # None
          THEN <<"db.query(TransactionCategories)">> ELSE <<>>,
    LET fields == edit_transaction_fields(req, transaction)
    IN  IF fields.response # None
        THEN Outcome(fields.response, table, 0, 0)
        ELSE IF commit_raises
        THEN Outcome(create_response("error",
                 "Error al actualizar la transacción: commit", None, 500), table, 0, 1)
        ELSE Outcome(create_response("error",
                 "Error al actualizar la transacción: plot_id Field required", None, 500),
                 flush_changes(table, transaction, fields.transaction), 1, 1))

\* an edit that writes every field of the request to the row, the fields
\* the request leaves out included
edit_transaction_replacing_row(req, usr, urf_state, transaction, table, states, commit_raises) ==
    IF ~Truthy(transaction)
    THEN Outcome(create_response("error",
             "La transacción especificada no existe", None, 404), table, 0, 0)
    ELSE Outcome(create_response("success",
             "Transacción actualizada correctamente", None, 200),
             flush_changes(table, transaction,
                 [transaction EXCEPT
                    !.description = req.description,
                    !.value = IF req.value # None
                              THEN numeric_15_2(req.value.value) ELSE 0]),
             1, 0)

\* edit_transaction_use_case from line 28 on: the transaction is the object
\* the session loaded, the table is the store at the time of the commit
edit_transaction_loaded(req, usr, urf_state, transaction, table, states, commit_raises) ==
            IF ~Truthy(transaction)
            THEN Outcome(create_response("error",
                     "La transacción especificada no existe", None, 404), table, 0, 0)
            ELSE After(<<"db.query(TransactionStates)">>,
            LET inactive_transaction_state == get_transaction_state(states, "Inactivo")
            IN  IF ~Truthy(inactive_transaction_state)
                THEN Outcome(create_response("error",
                         "Estado 'Inactivo' para Transactions no encontrado", None, 500),
                         table, 0, 0)
                ELSE IF transaction_is_inactive(transaction, inactive_transaction_state)
                THEN Outcome(create_response("error",
                         "La transacción está inactiva y no puede ser modificada",
                         None, 403), table, 0, 0)
                ELSE After(<<"get_user_role_farm_state_by_name">>,
                IF ~Truthy(urf_state)
                THEN Outcome(create_response("error",
                         "Estado 'Activo' para user_role_farm no encontrado", None, 400),
                         table, 0, 0)
                ELSE
                LET entity == entity_farm_id(transaction)
                IN  After(entity.calls,
                    IF entity.raised # "" THEN Escaped(entity.raised, table)
                    ELSE IF entity.response # None
                    THEN Outcome(entity.response, table, 0, 0)
                    ELSE After(<<"get_user_role_farm">>,
                    LET user_role_farm == get_user_role_farm(usr.user_id, entity.farm_id)
                    IN  IF ~Truthy(user_role_farm)
                        THEN Outcome(create_response("error",
                                 "No tienes permisos para editar transacciones en esta finca",
                                 None, 403), table, 0, 0)
                        ELSE After(<<"get_role_permissions_for_user_role">>,
                        IF "edit_transaction" \notin
                                  get_role_permissions_for_user_role(
                                      user_role_farm.user_role_id)
                        THEN Outcome(create_response("error",
                                 "No tienes permiso para editar transacciones",
                                 None, 403), table, 0, 0)
                        ELSE edit_transaction_commit(req, transaction, table,
                                                     commit_raises))))))

edit_transaction_use_case(req, session_token, urf_state, table, states, commit_raises) ==
    IF session_token = ""
    THEN Outcome(create_response("error", "Token de sesión faltante", None, 401),
                 table, 0, 0)
    ELSE After(<<"verify_session_token">>,
    LET usr == verify_session_token(session_token)
    IN  IF ~Truthy(usr)
        THEN Outcome(session_token_invalid_response, table, 0, 0)
        ELSE After(<<"db.query(Transactions)">>,
             edit_transaction_loaded(req, usr, urf_state,
                 query_transaction(table, req.transaction_id), table, states,
                 commit_raises)))

(***************************************************************************)
(* The store under create, edit and delete calls, and the reports of it.   *)
(***************************************************************************)
\* rows a store may start with: an active row of an unknown creator, an
\* inactive row, an active row of a creator whose lookup raises
StorePool ==
    { TxnFields(1, 1, 10, 2, 1, 9), TxnFields(1, 2, 10, 2, 2, 1),
      TxnFields(1, 1, 10, 2, 1, 7) }

StoreInit ==
    /\ \E n \in 0..MaxStoreTxns :
         \E rows \in [1..n -> StorePool] : db_transactions = TableOf(rows)
    /\ db_transaction_states \in
         { AllTransactionStates, {r \in AllTransactionStates : r.name # "Activo"} }
    /\ pc = "idle"
    /\ request = None /\ user = None
    /\ plots = None /\ plot_names = None /\ farm_id = None /\ farm = None
    /\ transactions = None /\ categories_map = None
    /\ plot_financials = None /\ farm_totals = None
    /\ txn_index = 0
    /\ report_response = None
    /\ response = None
    /\ db_queries = <<>>
    /\ user_lookups = <<>>
    /\ history_txn_ids = <<>>
    /\ last_call = None
    /\ previous_report = None
    /\ in_flight = NoSessions

\* a request body the schema rejects never reaches the use case
request_validation_error_response ==
    create_response("error", "Unprocessable Entity", None, 422)

\* descriptions sent: none, and texts at and next to both length limits
Descriptions ==
    { None } \cup { Some(Text(n)) : n \in { EditDescriptionLimit, EditDescriptionLimit + 1,
                                            SchemaDescriptionLimit, SchemaDescriptionLimit + 1 } }

\* values sent: negative, zero, less than half a cent, 0.10 and 1.10
RequestValues == { 0 - float(10), 0, 1, float(10), float(110) }

\* what a call records in last_call
Call(op, req, session_token, urf_state, commit_raises, outcome) ==
    [op |-> op, request |-> req, session_token |-> session_token,
     urf_state |-> urf_state, commit_raises |-> commit_raises,
     response |-> outcome.response, commits |-> outcome.commits,
     rollbacks |-> outcome.rollbacks, raised |-> outcome.raised,
     calls |-> outcome.calls]

CreateInput(req, session_token, urf_state, commit_raises) ==
    [request |-> req, session_token |-> session_token, urf_state |-> urf_state,
     commit_raises |-> commit_raises]

\* the runs explored: a call or a report request follows the start or a
\* call that succeeded; the state a refused or failed call leaves is reached
\* and checked, and ends its run
StoreSettled ==
    IF last_call = None THEN TRUE ELSE last_call.response.status = "success"

\* create calls: every caller on every kind of plot; on an empty store also
\* every category, value and description from an authorised caller
CreateInputs(table) ==
    { CreateInput(CreateTransactionRequest(p, 1, None, float(10), 2), t, u, FALSE) :
        p \in {1, 3, 4}, t \in SessionTokens, u \in UrfStateAnswers }
    \cup { CreateInput(CreateTransactionRequest(1, 1, None, float(10), 2),
                       "token-1", [user_role_farm_state_id |-> 1], TRUE) }
    \cup (IF table # <<>> THEN {} ELSE
          { CreateInput(CreateTransactionRequest(1, c, None, v, 2),
                        "token-1", [user_role_farm_state_id |-> 1], FALSE) :
              c \in {1, 2, 3, 4, 9}, v \in RequestValues }
          \cup
          { CreateInput(CreateTransactionRequest(1, 1, d, float(10), 2),
                        "token-1", [user_role_farm_state_id |-> 1], FALSE) :
              d \in Descriptions })

\* POST /create-transaction
CreateTransaction ==
    /\ pc = "idle"
    /\ StoreSettled
    /\ Len(db_transactions) <= MaxStoreTxns
    /\ \E input \in CreateInputs(db_transactions) :
         LET outcome ==
                 IF ~CreateTransactionRequestIsValid(input.request)
                 THEN Outcome(request_validation_error_response, db_transactions, 0, 0)
                 ELSE create_transaction_use_case(input.request, input.session_token,
                          input.urf_state, db_transactions, db_transaction_states,
                          input.commit_raises)
         IN  /\ db_transactions' = outcome.table
             /\ last_call' = Call("create", input.request, input.session_token,
                                  input.urf_state, input.commit_raises, outcome)
    /\ UNCHANGED <<db_transaction_states, pc, request, user, local_vars, response,
                   db_queries, user_lookups, history_txn_ids, previous_report,
                   in_flight>>

\* edit calls on every row and on a missing one: every caller with a new
\* value; an authorised caller with each field alone, with no field, with a
\* valid category followed by a description over the limit of the use case,
\* and with a new value while the commit fails
EditInputs(table) ==
    { CreateInput(UpdateTransactionRequest(id, None, None, Some(float(110)), None),
                  t, u, FALSE) :
        id \in 1..(Len(table) + 1), t \in SessionTokens, u \in UrfStateAnswers }
    \cup
    { CreateInput(req, "token-1", [user_role_farm_state_id |-> 1], FALSE) :
        req \in
          { UpdateTransactionRequest(id, None, None, None, None) :
              id \in 1..(Len(table) + 1) }
          \cup { UpdateTransactionRequest(id, Some(c), None, None, None) :
              id \in 1..(Len(table) + 1), c \in {2, 9} }
          \cup { UpdateTransactionRequest(id, None, d, None, None) :
              id \in 1..(Len(table) + 1), d \in Descriptions \ {None} }
          \cup { UpdateTransactionRequest(id, None, None, Some(v), None) :
              id \in 1..(Len(table) + 1), v \in RequestValues }
          \cup { UpdateTransactionRequest(id, None, None, None, Some(3)) :
              id \in 1..(Len(table) + 1) }
          \cup { UpdateTransactionRequest(id, Some(2),
                      Some(Text(EditDescriptionLimit + 1)), None, None) :
              id \in 1..(Len(table) + 1) } }
    \cup
    { CreateInput(UpdateTransactionRequest(id, None, None, Some(float(110)), None),
                  "token-1", [user_role_farm_state_id |-> 1], TRUE) :
        id \in 1..(Len(table) + 1) }

\* POST /edit-transaction
EditTransaction ==
    /\ pc = "idle"
    /\ StoreSettled
    /\ \E input \in EditInputs(db_transactions) :
         LET outcome ==
                 IF ~UpdateTransactionRequestIsValid(input.request)
                 THEN Outcome(request_validation_error_response, db_transactions, 0, 0)
                 ELSE edit_transaction_use_case(input.request, input.session_token,
                          input.urf_state, db_transactions, db_transaction_states,
                          input.commit_raises)
         IN  /\ db_transactions' = outcome.table
             /\ last_call' = Call("edit", input.request, input.session_token,
                                  input.urf_state, input.commit_raises, outcome)
    /\ UNCHANGED <<db_transaction_states, pc, request, user, local_vars, response,
                   db_queries, user_lookups, history_txn_ids, previous_report,
                   in_flight>>

\* delete calls on every row and on a missing one, by every caller, and by
\* an authorised caller while the commit fails
DeleteInputs(table) ==
    { CreateInput(DeleteTransactionRequest(id), t, None, FALSE) :
        id \in 1..(Len(table) + 1), t \in SessionTokens }
    \cup
    { CreateInput(DeleteTransactionRequest(id), "token-1", None, TRUE) :
        id \in 1..(Len(table) + 1) }

\* POST /delete-transaction
DeleteTransaction ==
    /\ pc = "idle"
    /\ StoreSettled
    /\ \E input \in DeleteInputs(db_transactions) :
         LET outcome == delete_transaction_use_case(input.request, input.session_token,
                            db_transactions, db_transaction_states, input.commit_raises)
         IN  /\ db_transactions' = outcome.table
             /\ last_call' = Call("delete", input.request, input.session_token,
                                  input.urf_state, input.commit_raises, outcome)
    /\ UNCHANGED <<db_transaction_states, pc, request, user, local_vars, response,
                   db_queries, user_lookups, history_txn_ids, previous_report,
                   in_flight>>

\* a report request arrives at the store
ReceiveStoreRequest ==
    /\ pc = "idle"
    /\ StoreSettled
    /\ \E input \in CoreRequests :
          /\ request' = input.request
          /\ user' = input.user
    /\ pc' = "validate_plots"
    /\ UNCHANGED <<db_vars, store_vars, local_vars, response, db_queries,
                   user_lookups, history_txn_ids>>

StoreNext ==
    \/ CreateTransaction
    \/ EditTransaction
    \/ DeleteTransaction
    \/ ReceiveStoreRequest
    \/ ValidateAndGetPlots
    \/ GetFarm
    \/ ValidateUserPermissions
    \/ GetTransactionsAndCategories
    \/ InitializeStructures
    \/ ProcessTransaction
    \/ BuildResponse
    \/ BuildTransactionHistory
    \/ Respond

StoreSpec == StoreInit /\ [][StoreNext]_vars

(***************************************************************************)
(* A report request sent twice.                                            *)
(***************************************************************************)
\* rows of a store whose report is asked for twice: incomes of 0.10 and of
\* 1.10 of one plot
RepeatPool == { TxnFields(2, 1, 10, 2, 1, 1), TxnFields(2, 1, 110, 2, 1, 1) }

RepeatInit ==
    /\ \E n \in 0..MaxTxns :
         \E rows \in [1..n -> RepeatPool] : db_transactions = TableOf(rows)
    /\ db_transaction_states = AllTransactionStates
    /\ pc = "idle"
    /\ request = None /\ user = None
    /\ plots = None /\ plot_names = None /\ farm_id = None /\ farm = None
    /\ transactions = None /\ categories_map = None
    /\ plot_financials = None /\ farm_totals = None
    /\ txn_index = 0
    /\ report_response = None
    /\ response = None
    /\ db_queries = <<>>
    /\ user_lookups = <<>>
    /\ history_txn_ids = <<>>
    /\ last_call = None
    /\ previous_report = None
    /\ in_flight = NoSessions

\* the same request is sent once more, nothing having been written since
RepeatRequest ==
    /\ pc = "done"
    /\ previous_report = None
    /\ previous_report' = response
    /\ pc' = "validate_plots"
    /\ plots' = None /\ plot_names' = None /\ farm_id' = None /\ farm' = None
    /\ transactions' = None /\ categories_map' = None
    /\ plot_financials' = None /\ farm_totals' = None
    /\ txn_index' = 0
    /\ report_response' = None
    /\ response' = None
    /\ db_queries' = <<>>
    /\ user_lookups' = <<>>
    /\ history_txn_ids' = <<>>
    /\ UNCHANGED <<db_vars, request, user, last_call, in_flight>>

RepeatNext ==
    \/ ReceiveRequest
    \/ RepeatRequest
    \/ ValidateAndGetPlots
    \/ GetFarm
    \/ ValidateUserPermissions
    \/ GetTransactionsAndCategories
    \/ InitializeStructures
    \/ ProcessTransaction
    \/ BuildResponse
    \/ BuildTransactionHistory
    \/ Respond

RepeatSpec == RepeatInit /\ [][RepeatNext]_vars

(***************************************************************************)
(* An edit and a delete request served at the same time, each on its own   *)
(* session: a session loads the transaction, and later checks it and       *)
(* commits; the steps of the two requests interleave in any order.         *)
(***************************************************************************)
RaceInit ==
    /\ \E n \in 1..MaxStoreTxns :
         \E rows \in [1..n -> StorePool] : db_transactions = TableOf(rows)
    /\ db_transaction_states = AllTransactionStates
    /\ pc = "idle"
    /\ request = None /\ user = None
    /\ plots = None /\ plot_names = None /\ farm_id = None /\ farm = None
    /\ transactions = None /\ categories_map = None
    /\ plot_financials = None /\ farm_totals = None
    /\ txn_index = 0
    /\ report_response = None
    /\ response = None
    /\ db_queries = <<>>
    /\ user_lookups = <<>>
    /\ history_txn_ids = <<>>
    /\ last_call = None
    /\ previous_report = None
    /\ in_flight = NoSessions

\* a request being served: its input, the user of its token, the object its
\* session loaded, and whether it has been answered
Session(input, usr, transaction, finished) ==
    [input |-> input, usr |-> usr, transaction |-> transaction, finished |-> finished]

\* edit_transaction_use_case, lines 14-26: the token is verified and the
\* transaction is loaded into the session; a request without a user is
\* answered at once
BeginEdit ==
    /\ pc = "idle"
    /\ in_flight.edit = None
    /\ \E input \in EditInputs(db_transactions) :
         LET usr == verify_session_token(input.session_token)
             answered == ~UpdateTransactionRequestIsValid(input.request) \/ ~Truthy(usr)
             outcome ==
                 IF ~UpdateTransactionRequestIsValid(input.request)
                 THEN Outcome(request_validation_error_response, db_transactions, 0, 0)
                 ELSE edit_transaction_use_case(input.request, input.session_token,
                          input.urf_state, db_transactions, db_transaction_states,
                          input.commit_raises)
         IN  /\ in_flight' =
                   [in_flight EXCEPT
                      !.edit = Session(input, usr,
                                   IF answered THEN None
                                   ELSE query_transaction(db_transactions,
                                            input.request.transaction_id),
                                   answered),
                      !.steps = Append(@, "BeginEdit")]
             /\ last_call' = IF answered
                             THEN Call("edit", input.request, input.session_token,
                                       input.urf_state, input.commit_raises, outcome)
                             ELSE last_call
    /\ UNCHANGED <<db_vars, pc, request, user, local_vars, response, db_queries,
                   user_lookups, history_txn_ids, previous_report>>

\* edit_transaction_use_case, lines 28-144, on the object loaded before
FinishEdit ==
    /\ pc = "idle"
    /\ in_flight.edit # None
    /\ ~in_flight.edit.finished
    /\ LET session == in_flight.edit
           outcome == After(<<"verify_session_token", "db.query(Transactions)">>,
                          edit_transaction_loaded(session.input.request, session.usr,
                              session.input.urf_state, session.transaction,
                              db_transactions, db_transaction_states,
                              session.input.commit_raises))
       IN  /\ db_transactions' = outcome.table
           /\ last_call' = Call("edit", session.input.request,
                                session.input.session_token, session.input.urf_state,
                                session.input.commit_raises, outcome)
    /\ in_flight' = [in_flight EXCEPT !.edit.finished = TRUE,
                                      !.steps = Append(@, "FinishEdit")]
    /\ UNCHANGED <<db_transaction_states, pc, request, user, local_vars, response,
                   db_queries, user_lookups, history_txn_ids, previous_report>>

\* delete_transaction_use_case, lines 11-21: the token is verified and the
\* transaction is loaded into the session
BeginDelete ==
    /\ pc = "idle"
    /\ in_flight.delete = None
    /\ \E input \in DeleteInputs(db_transactions) :
         LET usr == verify_session_token(input.session_token)
             answered == ~Truthy(usr)
             outcome == delete_transaction_use_case(input.request, input.session_token,
                            db_transactions, db_transaction_states, input.commit_raises)
         IN  /\ in_flight' =
                   [in_flight EXCEPT
                      !.delete = Session(input, usr,
                                     IF answered THEN None
                                     ELSE query_transaction(db_transactions,
                                              input.request.transaction_id),
                                     answered),
                      !.steps = Append(@, "BeginDelete")]
             /\ last_call' = IF answered
                             THEN Call("delete", input.request, input.session_token,
                                       input.urf_state, input.commit_raises, outcome)
                             ELSE last_call
    /\ UNCHANGED <<db_vars, pc, request, user, local_vars, response, db_queries,
                   user_lookups, history_txn_ids, previous_report>>

\* delete_transaction_use_case, lines 23-75, on the object loaded before
FinishDelete ==
    /\ pc = "idle"
    /\ in_flight.delete # None
    /\ ~in_flight.delete.finished
    /\ LET session == in_flight.delete
           outcome == After(<<"verify_session_token", "db.query(Transactions)">>,
                          delete_transaction_loaded(session.usr, session.transaction,
                              db_transactions, db_transaction_states,
                              session.input.commit_raises))
       IN  /\ db_transactions' = outcome.table
           /\ last_call' = Call("delete", session.input.request,
                                session.input.session_token, session.input.urf_state,
                                session.input.commit_raises, outcome)
    /\ in_flight' = [in_flight EXCEPT !.delete.finished = TRUE,
                                      !.steps = Append(@, "FinishDelete")]
    /\ UNCHANGED <<db_transaction_states, pc, request, user, local_vars, response,
                   db_queries, user_lookups, history_txn_ids, previous_report>>

RaceNext ==
    \/ BeginEdit
    \/ FinishEdit
    \/ BeginDelete
    \/ FinishDelete

RaceSpec == RaceInit /\ [][RaceNext]_vars

(***************************************************************************)
(* Properties of the report.                                               *)
(***************************************************************************)
\* generate_financial_report has returned a success response
Succeeded == pc = "done" /\ response.status = "success"

\* sum(...) of a list of floats, left to right
RECURSIVE FloatSum(_)
FloatSum(seq) ==
    IF seq = <<>> THEN 0
    ELSE FloatAdd(FloatSum(SubSeq(seq, 1, Len(seq) - 1)), seq[Len(seq)])

\* the category and type a transaction resolves to in the category map
CategoryOf(txn) ==
    IF txn.transaction_category_id \in DOMAIN categories_map
    THEN categories_map[txn.transaction_category_id] ELSE None

\* the category id has no entry in the category map, or the entry has no type
Unresolved(txn) ==
    \/ CategoryOf(txn) = None
    \/ CategoryOf(txn).transaction_type = None

HasTypeIn(txn, synonyms) ==
    /\ ~Unresolved(txn)
    /\ lower(CategoryOf(txn).transaction_type.name) \in synonyms

IsIncomeTxn(txn) == HasTypeIn(txn, {"ingreso", "income", "revenue"})

IsExpenseTxn(txn) == HasTypeIn(txn, {"gasto", "expense", "cost"})

\* the type name is in neither synonym set
IsUnrecognisedTxn(txn) ==
    ~Unresolved(txn) /\ ~IsIncomeTxn(txn) /\ ~IsExpenseTxn(txn)

\* the income accumulators: per plot total and per-category, farm total and
\* per-category
IncomeAccumulators(pf, ft) ==
    << [i \in 1..Len(pf) |-> <<pf[i].k, pf[i].v.ingresos, pf[i].v.ingresos_por_categoria>>],
       ft.ingresos, ft.ingresos_categorias >>

ExpenseAccumulators(pf, ft) ==
    << [i \in 1..Len(pf) |-> <<pf[i].k, pf[i].v.gastos, pf[i].v.gastos_por_categoria>>],
       ft.gastos, ft.gastos_categorias >>

\* C1: in every successful report the farm income total is the sum of the
\* plots' income totals, and the farm expense total is the sum of the plots'
\* expense totals.
C1_FarmTotalsAreSumOfPlotTotals ==
    Succeeded =>
        LET pfs == response.data.plot_financials
            summary == response.data.farm_summary
        IN  /\ summary.total_ingresos =
                  FloatSum([i \in 1..Len(pfs) |-> pfs[i].ingresos])
            /\ summary.total_gastos =
                  FloatSum([i \in 1..Len(pfs) |-> pfs[i].gastos])

\* C2: in every successful report balance = ingresos - gastos for every
\* PlotFinancialData and balance_financiero = total_ingresos - total_gastos
\* for the farm summary.
C2_BalanceIsIncomeMinusExpense ==
    Succeeded =>
        LET pfs == response.data.plot_financials
            summary == response.data.farm_summary
        IN  /\ \A i \in 1..Len(pfs) :
                  pfs[i].balance = FloatSub(pfs[i].ingresos, pfs[i].gastos)
            /\ summary.balance_financiero =
                  FloatSub(summary.total_ingresos, summary.total_gastos)

\* a successful report with a plot that has income and a larger expense, and
\* a farm with income and expense
C2_Witness ==
    /\ Succeeded
    /\ \E i \in 1..Len(response.data.plot_financials) :
          LET p == response.data.plot_financials[i]
          IN  p.ingresos > 0 /\ p.gastos > p.ingresos /\ p.balance < 0
    /\ response.data.farm_summary.total_ingresos > 0
    /\ response.data.farm_summary.total_gastos > 0

\* C3: processing a transaction of an income type leaves every expense
\* accumulator unchanged, and processing a transaction of an expense type
\* leaves every income accumulator unchanged.
C3_ClassifiedSideOnly ==
    [][ ProcessTransaction =>
          LET txn == transactions[txn_index]
          IN  /\ IsIncomeTxn(txn) =>
                    ExpenseAccumulators(plot_financials', farm_totals')
                      = ExpenseAccumulators(plot_financials, farm_totals)
              /\ IsExpenseTxn(txn) =>
                    IncomeAccumulators(plot_financials', farm_totals')
                      = IncomeAccumulators(plot_financials, farm_totals) ]_vars

\* an income transaction and then an expense transaction of a reported plot
\* have been processed, and each has been added to its own side
C3_Witness ==
    /\ pc = "process"
    /\ txn_index = 3
    /\ IsIncomeTxn(transactions[1]) /\ IsExpenseTxn(transactions[2])
    /\ DictHas(plot_financials, transactions[1].plot_id)
    /\ DictHas(plot_financials, transactions[2].plot_id)
    /\ farm_totals.ingresos = float(transactions[1].value)
    /\ farm_totals.gastos = float(transactions[2].value)

\* no accumulator of any plot or of the farm changes
AccumulatorsUnchanged ==
    /\ IncomeAccumulators(plot_financials', farm_totals')
         = IncomeAccumulators(plot_financials, farm_totals)
    /\ ExpenseAccumulators(plot_financials', farm_totals')
         = ExpenseAccumulators(plot_financials, farm_totals)

\* C4: a fetched transaction whose type name is in neither synonym set is
\* added to no total of any plot or of the farm, and has no item in
\* transaction_history when the history is built.
C4_UnrecognisedTypeInNoTotalAndNoHistory ==
    [][ /\ ProcessTransaction /\ IsUnrecognisedTxn(transactions[txn_index])
            => AccumulatorsUnchanged
        /\ BuildTransactionHistory =>
              \A i \in 1..Len(transactions) :
                  IsUnrecognisedTxn(transactions[i]) =>
                      transactions[i].transaction_id \notin Range(history_txn_ids') ]_vars

\* C5: a fetched transaction whose category id is absent from the category
\* map, or whose category has no type, changes no accumulator and has no
\* item in transaction_history.
C5_UnresolvedCategoryInNoTotalAndNoHistory ==
    [][ /\ ProcessTransaction /\ Unresolved(transactions[txn_index])
            => AccumulatorsUnchanged
        /\ BuildTransactionHistory =>
              \A i \in 1..Len(transactions) :
                  Unresolved(transactions[i]) =>
                      transactions[i].transaction_id \notin Range(history_txn_ids') ]_vars

\* a report with history was returned over a transaction whose category id
\* is not in the map, one whose category has no type and a classified one;
\* only the classified one is in the totals and in the history
C5_Witness ==
    /\ Succeeded
    /\ request.include_transaction_history
    /\ Len(transactions) = 3
    /\ \E i \in 1..3 : CategoryOf(transactions[i]) = None
    /\ \E i \in 1..3 : /\ CategoryOf(transactions[i]) # None
                       /\ CategoryOf(transactions[i]).transaction_type = None
    /\ \E i \in 1..3 : /\ IsIncomeTxn(transactions[i])
                       /\ history_txn_ids = <<transactions[i].transaction_id>>
                       /\ response.data.farm_summary.total_ingresos
                            = float(transactions[i].value)
    /\ response.data.farm_summary.total_gastos = 0

\* the plots of the request that pass verify_plot
VerifiedPlots ==
    { verify_plot(id) : id \in Range(request.plot_ids) } \ { None }

\* C6: a request whose plot ids all fail verification is answered with
\* status 404.
C6_NoVerifiedPlotIs404 ==
    (pc = "done" /\ VerifiedPlots = {}) => response.status_code = 404

\* the report reached the transaction fetch and found no "Activo" row
ActiveStateUnresolved ==
    /\ pc = "done"
    /\ db_queries # <<>>
    /\ get_transaction_state(db_transaction_states, "Activo") = None

\* C7: a report that cannot resolve the "Activo" transaction state is
\* answered with status 500.
C7_MissingActiveStateIs500 ==
    ActiveStateUnresolved => response.status_code = 500

\* C8: a request whose verified plots reference more than one farm is
\* answered with status 400, and a successful report covers plots of exactly
\* one farm.
C8_SingleFarm ==
    /\ (pc = "done" /\ Cardinality({ p.farm_id : p \in VerifiedPlots }) > 1)
          => (response.status = "error" /\ response.status_code = 400)
    /\ Succeeded =>
          /\ Cardinality({ p.farm_id : p \in VerifiedPlots }) = 1
          /\ \A i \in 1..Len(plots) : plots[i].farm_id = farm_id

\* a request naming one plot of farm 100 and one of farm 200 was rejected
C8_Witness ==
    /\ pc = "done"
    /\ { p.farm_id : p \in VerifiedPlots } = {100, 200}
    /\ Cardinality(VerifiedPlots) = 2
    /\ response.status_code = 400

\* the user has no role-link to the resolved farm
NoRoleLink == get_user_role_farm(user.user_id, farm_id) = None

\* the role of the user's link lacks the permission "read_financial_report"
LacksReportPermission ==
    /\ ~NoRoleLink
    /\ "read_financial_report" \notin get_role_permissions_for_user_role(
           get_user_role_farm(user.user_id, farm_id).user_role_id)

\* C9: when the farm is resolved and the user has no role-link to it, or the
\* role lacks exactly "read_financial_report", the answer is status 403, no
\* table has been queried and no user lookup has been made.
C9_Forbidden ==
    (pc = "done" /\ farm # None /\ (NoRoleLink \/ LacksReportPermission)) =>
        /\ response.status_code = 403
        /\ db_queries = <<>>
        /\ user_lookups = <<>>

\* a user whose role holds "Read_Financial_Report" but not
\* "read_financial_report" was refused a report with history
C9_Witness ==
    /\ pc = "done"
    /\ farm # None
    /\ LacksReportPermission
    /\ request.include_transaction_history
    /\ Len(db_transactions) > 0
    /\ response.status_code = 403

\* a transaction that cannot be classified: no category, no type, or a type
\* name in neither synonym set
Unclassifiable(txn) == Unresolved(txn) \/ IsUnrecognisedTxn(txn)

AllTotalsZero(data) ==
    /\ data.farm_summary.total_ingresos = 0
    /\ data.farm_summary.total_gastos = 0
    /\ data.farm_summary.balance_financiero = 0
    /\ \A i \in 1..Len(data.plot_financials) :
          /\ data.plot_financials[i].ingresos = 0
          /\ data.plot_financials[i].gastos = 0
          /\ data.plot_financials[i].balance = 0

\* plot resolution, farm lookup, authorization and the transaction fetch
\* succeeded: the accumulators were set up, which is the next statement
FetchSucceeded == txn_index > 0

\* C10: once the transactions have been fetched the report returns a success
\* response, and when every fetched transaction is unclassifiable all its
\* totals are zero.
C10_SuccessAfterFetch ==
    (pc = "done" /\ FetchSucceeded) =>
        /\ response.status = "success"
        /\ response.status_code = 200
        /\ (\A i \in 1..Len(transactions) : Unclassifiable(transactions[i]))
              => AllTotalsZero(response.data)

\* a report over three fetched transactions, one of each unclassifiable kind,
\* succeeded with all totals zero
C10_Witness ==
    /\ Succeeded
    /\ Len(transactions) = 3
    /\ \E i \in 1..3 : CategoryOf(transactions[i]) = None
    /\ \E i \in 1..3 : /\ CategoryOf(transactions[i]) # None
                       /\ CategoryOf(transactions[i]).transaction_type = None
    /\ \E i \in 1..3 : IsUnrecognisedTxn(transactions[i])
    /\ AllTotalsZero(response.data)

(***************************************************************************)
(* Properties of the store.                                                *)
(***************************************************************************)
\* the row's state is the one named Inactivo
IsInactiveRow(row) ==
    row.transaction_state_id =
        (CHOOSE r \in AllTransactionStates : r.name = "Inactivo").transaction_state_id

\* the step is a create, edit or delete call
CallStep == pc = "idle" /\ pc' = "idle" /\ last_call' # None

\* the call of this step came with a token of a user and a body the schema accepts
AuthenticatedCall ==
    /\ Truthy(verify_session_token(last_call'.session_token))
    /\ last_call'.response.status_code # 422

\* C11: a transaction that is Inactive stays Inactive through every later
\* create, edit and delete call; a delete call on it (from an authenticated
\* caller) is answered 400 and an edit call on it 403
C11_InactiveStaysInactive ==
    [][\A i \in 1..Len(db_transactions) :
          IsInactiveRow(db_transactions[i]) =>
             /\ i <= Len(db_transactions')
             /\ IsInactiveRow(db_transactions'[i])
             /\ (CallStep /\ last_call'.op # "create"
                   /\ last_call'.request.transaction_id = db_transactions[i].transaction_id
                   /\ AuthenticatedCall)
                => /\ last_call'.op = "delete" => last_call'.response.status_code = 400
                   /\ last_call'.op = "edit" => last_call'.response.status_code = 403]_vars

\* a delete call on an Inactive transaction has been answered 400
C11_Witness ==
    /\ last_call # None
    /\ last_call.op = "delete"
    /\ last_call.response.status_code = 400
    /\ \E i \in 1..Len(db_transactions) :
          /\ db_transactions[i].transaction_id = last_call.request.transaction_id
          /\ IsInactiveRow(db_transactions[i])

\* the row of the table with that transaction_id (there is one)
RowOf(table, id) == table[CHOOSE i \in 1..Len(table) : table[i].transaction_id = id]

HasRow(table, id) == \E i \in 1..Len(table) : table[i].transaction_id = id

\* the caller of the token is linked to the farm of the plot by a role that
\* holds the permission
Authorised(session_token, plot_id, permission) ==
    LET usr == verify_session_token(session_token)
        plot == verify_plot(plot_id)
    IN  /\ Truthy(usr)
        /\ Truthy(plot)
        /\ LET user_role_farm == get_user_role_farm(usr.user_id, plot.farm_id)
           IN  /\ Truthy(user_role_farm)
               /\ permission \in
                    get_role_permissions_for_user_role(user_role_farm.user_role_id)

\* the step is a delete call on an existing Active transaction of a verified
\* plot, by a caller authorised to delete, and the commit does not fail
AuthorisedDeleteOfActive ==
    /\ CallStep
    /\ last_call'.op = "delete"
    /\ ~last_call'.commit_raises
    /\ HasRow(db_transactions, last_call'.request.transaction_id)
    /\ LET row == RowOf(db_transactions, last_call'.request.transaction_id)
       IN  /\ ~IsInactiveRow(row)
           /\ Authorised(last_call'.session_token, row.plot_id, "delete_transaction")

\* C12: a delete call on an existing Active transaction of a verified plot, by
\* a user linked to the plot's farm whose role holds delete_transaction, sets
\* the state to Inactive, commits once, answers 200 and keeps the record
C12_DeleteSetsInactive ==
    [][AuthorisedDeleteOfActive =>
          LET id == last_call'.request.transaction_id
          IN  /\ last_call'.response.status_code = 200
              /\ last_call'.commits = 1
              /\ Len(db_transactions') = Len(db_transactions)
              /\ HasRow(db_transactions', id)
              /\ IsInactiveRow(RowOf(db_transactions', id))]_vars

\* C13: every persisted transaction has a value greater than zero, after any
\* sequence of create and edit calls
C13_PersistedValuesPositive ==
    \A i \in 1..Len(db_transactions) : db_transactions[i].value > 0

\* the type name of the category with that id, in lower case ("" when the
\* category or its type is missing)
TypeNameOfCategory(category_id) ==
    IF \E c \in TransactionCategories :
          c.transaction_category_id = category_id /\ c.transaction_type # None
    THEN lower((CHOOSE c \in TransactionCategories :
                   c.transaction_category_id = category_id).transaction_type.name)
    ELSE ""

\* the last call created the only transaction of the store and the report
\* that succeeded covers its plot and its date
ReportOfCreatedTransaction ==
    /\ Succeeded
    /\ last_call # None
    /\ last_call.op = "create"
    /\ last_call.response.status = "success"
    /\ Len(db_transactions) = 1
    /\ last_call.request.plot_id \in Range(request.plot_ids)
    /\ request.fechaInicio <= last_call.request.transaction_date
    /\ last_call.request.transaction_date <= request.fechaFin

\* C14: after a successful create of value V and category C as the only
\* transaction, a report over its plot and date holds exactly V in the income
\* bucket when C's type is an income name, in the expense bucket when it is an
\* expense name, and nothing in the other bucket
C14_CreateThenReportRoundTrip ==
    ReportOfCreatedTransaction =>
        LET V == last_call.request.value
            kind == TypeNameOfCategory(last_call.request.transaction_category_id)
            summary == response.data.farm_summary
        IN  /\ kind \in {"ingreso", "income", "revenue"} =>
                 summary.total_ingresos = V /\ summary.total_gastos = 0
            /\ kind \in {"gasto", "expense", "cost"} =>
                 summary.total_gastos = V /\ summary.total_ingresos = 0

(***************************************************************************)
(* Further properties of the report.                                       *)
(***************************************************************************)
\* the row is stored for a requested plot, Active, and dated within the
\* period, both bounds included
InReportScope(row) ==
    /\ \E k \in 1..Len(request.plot_ids) : request.plot_ids[k] = row.plot_id
    /\ ~IsInactiveRow(row)
    /\ row.transaction_state_id =
          (CHOOSE r \in AllTransactionStates : r.name = "Activo").transaction_state_id
    /\ request.fechaInicio <= row.transaction_date
    /\ row.transaction_date <= request.fechaFin

\* C15: the transactions fetched for a report are exactly the stored ones of
\* a requested plot that are Active and dated from period start to period
\* end, both bounds included; an Inactive one is never among them
C15_FetchedAreExactlyInScope ==
    FetchSucceeded =>
        /\ \A i \in 1..Len(db_transactions) :
              InReportScope(db_transactions[i]) <=>
                 \E j \in 1..Len(transactions) : transactions[j] = db_transactions[i]
        /\ Len(transactions) =
              Cardinality({ i \in 1..Len(db_transactions) :
                               InReportScope(db_transactions[i]) })

\* a transaction dated on the last day of the period has been fetched
C15_Witness ==
    /\ FetchSucceeded
    /\ \E j \in 1..Len(transactions) :
          transactions[j].transaction_date = request.fechaFin

\* the amounts of a category breakdown, whatever the order of the entries
BreakdownAmounts(list) == { <<list[i].category_name, list[i].monto>> : i \in 1..Len(list) }

\* the aggregate numbers of a report: farm and per-plot income, expense,
\* balance and per-category amounts
AggregateNumbers(data) ==
    [farm |-> <<data.farm_summary.total_ingresos, data.farm_summary.total_gastos,
                data.farm_summary.balance_financiero,
                BreakdownAmounts(data.farm_summary.ingresos_por_categoria),
                BreakdownAmounts(data.farm_summary.gastos_por_categoria)>>,
     plots |-> { <<data.plot_financials[i].plot_id, data.plot_financials[i].ingresos,
                   data.plot_financials[i].gastos, data.plot_financials[i].balance,
                   BreakdownAmounts(data.plot_financials[i].ingresos_por_categoria),
                   BreakdownAmounts(data.plot_financials[i].gastos_por_categoria)>> :
                 i \in 1..Len(data.plot_financials) }]

\* C16: the same report request answered twice with no write to the store in
\* between yields the same aggregate numbers
C16_RepeatedReportSameAggregates ==
    (/\ Succeeded
     /\ previous_report # None
     /\ previous_report.status = "success")
    => AggregateNumbers(response.data) = AggregateNumbers(previous_report.data)

DescribedCallOtherwiseFine ==
    /\ CallStep
    /\ last_call'.op \in {"create", "edit"}
    /\ last_call'.request.description # None
    /\ ~last_call'.commit_raises
    /\ last_call'.urf_state # None
    /\ Truthy(get_transaction_state(db_transaction_states, "Activo"))
    /\ Truthy(get_transaction_state(db_transaction_states, "Inactivo"))
    /\ IF last_call'.op = "create"
       THEN /\ Authorised(last_call'.session_token, last_call'.request.plot_id,
                          "add_transaction")
            /\ last_call'.request.value > 0
            /\ TypeNameOfCategory(last_call'.request.transaction_category_id) # ""
       ELSE /\ last_call'.request.transaction_category_id = None
            /\ last_call'.request.value = None
            /\ HasRow(db_transactions, last_call'.request.transaction_id)
            /\ LET row == RowOf(db_transactions, last_call'.request.transaction_id)
               IN  /\ ~IsInactiveRow(row)
                   /\ Authorised(last_call'.session_token, row.plot_id,
                                 "edit_transaction")

\* C18: a create or edit call with a description of at most 255 characters
\* (and nothing else to be refused for) is accepted, and one with a longer
\* description is rejected
C18_DescriptionLimitIs255 ==
    [][DescribedCallOtherwiseFine =>
          (last_call'.response.status_code = 200
             <=> Len(last_call'.request.description.value) <= SchemaDescriptionLimit)]_vars

\* the same statement for the create flow alone
C18_CreateDescriptionLimitIs255 ==
    [][(DescribedCallOtherwiseFine /\ last_call'.op = "create") =>
          (last_call'.response.status_code = 200
             <=> Len(last_call'.request.description.value) <= SchemaDescriptionLimit)]_vars

\* the permission each operation asks for
OperationPermission(op) ==
    CASE op = "create" -> "add_transaction"
      [] op = "edit" -> "edit_transaction"
      [] op = "delete" -> "delete_transaction"

\* the plot the call of this step is about: the plot sent (create) or the plot
\* of the transaction named (edit, delete); None when there is no such
\* transaction
PlotOfCall ==
    IF last_call'.op = "create" THEN Some(last_call'.request.plot_id)
    ELSE IF HasRow(db_transactions, last_call'.request.transaction_id)
         THEN Some(RowOf(db_transactions, last_call'.request.transaction_id).plot_id)
         ELSE None

\* the caller of this step's call is a verified user linked to the farm of
\* the call's plot by a role that holds the operation's permission
AuthorisedCall ==
    /\ PlotOfCall # None
    /\ Authorised(last_call'.session_token, PlotOfCall.value,
                  OperationPermission(last_call'.op))

\* the call of this step has a body the schema accepts, names a plot the farms
\* service verifies (create) or an Active transaction of such a plot (edit,
\* delete), and the farms service answers the state lookup
CallOnKnownTarget ==
    /\ last_call'.response.status_code # 422
    /\ PlotOfCall # None
    /\ Truthy(verify_plot(PlotOfCall.value))
    /\ last_call'.op = "delete" \/ last_call'.urf_state # None
    /\ last_call'.op = "create" \/
         ~IsInactiveRow(RowOf(db_transactions, last_call'.request.transaction_id))
    /\ Truthy(get_transaction_state(db_transaction_states, "Inactivo"))

\* the store changes only by an authorised call
C19_StoreUnchangedUnlessAuthorised ==
    [][(CallStep /\ ~AuthorisedCall) => db_transactions' = db_transactions]_vars

\* C19: a create, edit or delete call (on a known target) whose caller is not
\* a verified user linked to the farm of the plot by a role holding the
\* operation's permission leaves the store unchanged and is answered 401 or
\* 403
C19_UnauthorisedIs401Or403 ==
    [][(CallStep /\ CallOnKnownTarget /\ ~AuthorisedCall) =>
          /\ db_transactions' = db_transactions
          /\ last_call'.response.status_code \in {401, 403}]_vars

\* how many of the lookups were made for that creator id
LookupsOf(creator_id) ==
    Cardinality({ i \in 1..Len(user_lookups) : user_lookups[i] = creator_id })

\* C20: in a report with history, get_user_by_id is invoked at most once for
\* each creator id of the fetched transactions, whether the lookup returns a
\* user or none
C20_OneLookupPerCreator ==
    (Succeeded /\ request.include_transaction_history) =>
        \A i \in 1..Len(transactions) : LookupsOf(transactions[i].creator_id) <= 1

\* the same statement for the creators the lookup finds
C20_OneLookupPerKnownCreator ==
    (Succeeded /\ request.include_transaction_history) =>
        \A i \in 1..Len(transactions) :
            "name" \in DOMAIN get_user_by_id(transactions[i].creator_id) =>
                LookupsOf(transactions[i].creator_id) <= 1

(***************************************************************************)
(* Properties of concurrent edit and delete requests.                      *)
(***************************************************************************)
\* this step is the commit step of the edit request
EditFinishes ==
    /\ in_flight.edit # None
    /\ ~in_flight.edit.finished
    /\ in_flight'.edit.finished

ContributesToTotals(txn) ==
    /\ DictHas(plot_financials, txn.plot_id)
    /\ IsIncomeTxn(txn) \/ IsExpenseTxn(txn)

\* C22: in a report with history, a fetched transaction has a history item
\* if and only if it was added to some total; a transaction of a requested
\* plot that plot validation dropped is in no total and has no history item
C22_HistoryAgreesWithTotals ==
    (Succeeded /\ request.include_transaction_history) =>
        \A i \in 1..Len(transactions) :
            (transactions[i].transaction_id \in Range(history_txn_ids))
                <=> ContributesToTotals(transactions[i])

\* the second half alone: a fetched transaction of a dropped plot has no
\* history item
C22_DroppedPlotHasNoHistoryItem ==
    (Succeeded /\ request.include_transaction_history) =>
        \A i \in 1..Len(transactions) :
            ~DictHas(plot_financials, transactions[i].plot_id) =>
                transactions[i].transaction_id \notin Range(history_txn_ids)

(***************************************************************************)
(* Further properties of the store.                                        *)
(***************************************************************************)
\* the step is an edit call
EditStep == CallStep /\ last_call'.op = "edit"

ReachesCommit ==
    /\ CallStep
    /\ last_call'.response.status_code # 422
    /\ Truthy(verify_session_token(last_call'.session_token))
    /\ IF last_call'.op = "create"
       THEN /\ last_call'.urf_state # None
            /\ Authorised(last_call'.session_token, last_call'.request.plot_id,
                          "add_transaction")
            /\ TypeNameOfCategory(last_call'.request.transaction_category_id) # ""
            /\ last_call'.request.value > 0
            /\ Truthy(get_transaction_state(db_transaction_states, "Activo"))
       ELSE /\ HasRow(db_transactions, last_call'.request.transaction_id)
            /\ Truthy(get_transaction_state(db_transaction_states, "Inactivo"))
            /\ LET row == RowOf(db_transactions, last_call'.request.transaction_id)
                   entity == entity_farm_id(row)
               IN  /\ ~IsInactiveRow(row)
                   /\ last_call'.op = "edit" =>
                         /\ last_call'.urf_state # None
                         /\ edit_transaction_fields(last_call'.request, row).response = None
                   /\ entity.raised = ""
                   /\ entity.response = None
                   /\ LET user_role_farm ==
                              get_user_role_farm(
                                  verify_session_token(last_call'.session_token).user_id,
                                  entity.farm_id)
                      IN  /\ Truthy(user_role_farm)
                          /\ OperationPermission(last_call'.op) \in
                               get_role_permissions_for_user_role(
                                   user_role_farm.user_role_id)

C26_TokenCheckComesFirst ==
    [][(CallStep /\ last_call'.response.status_code # 422) =>
          /\ last_call'.session_token = "" =>
                /\ last_call'.response.status_code = 401
                /\ last_call'.calls = <<>>
                /\ db_transactions' = db_transactions
          /\ (last_call'.session_token # ""
                /\ ~Truthy(verify_session_token(last_call'.session_token))) =>
                /\ last_call'.response.status_code = 401
                /\ last_call'.calls = <<"verify_session_token">>
                /\ db_transactions' = db_transactions]_vars

\* a delete call on an Active transaction came with a token that verifies to
\* no user and was answered 401
C26_Witness ==
    /\ last_call # None
    /\ last_call.op = "delete"
    /\ last_call.session_token = "expired"
    /\ last_call.response.status_code = 401
    /\ last_call.calls = <<"verify_session_token">>
    /\ HasRow(db_transactions, last_call.request.transaction_id)
    /\ ~IsInactiveRow(RowOf(db_transactions, last_call.request.transaction_id))

\* _process_transaction applied to the transactions one after the other
RECURSIVE process_all(_, _, _, _)
process_all(txns, cmap, pf, ft) ==
    IF txns = <<>> THEN [plot_financials |-> pf, farm_totals |-> ft]
    ELSE LET r == process_transaction(Head(txns), cmap, pf, ft)
         IN  process_all(Tail(txns), cmap, r.plot_financials, r.farm_totals)

\* the aggregate figures as they follow from the plots and the fetched
\* transactions alone
FiguresOfTransactions ==
    LET r == process_all(transactions, categories_map,
                 initial_plot_financials(plots, plot_names, <<>>),
                 [ingresos |-> 0, gastos |-> 0,
                  ingresos_categorias |-> <<>>, gastos_categorias |-> <<>>])
    IN  [plot_financials |-> build_plot_financials_list(r.plot_financials),
         farm_summary |-> build_farm_summary(r.farm_totals)]

\* the request with the other value of include_transaction_history
OtherFlag(req) ==
    [req EXCEPT !.include_transaction_history = ~req.include_transaction_history]

\* C27: the history is built and attached only when
\* include_transaction_history is true; when it is false no history item is
\* built, get_user_by_id is never invoked and the field stays null; the
\* aggregate figures are those that follow from the plots and the fetched
\* transactions, which are the same for both values of the flag
C27_HistoryOnlyOnRequest ==
    Succeeded =>
        /\ ~request.include_transaction_history =>
              /\ user_lookups = <<>>
              /\ history_txn_ids = <<>>
              /\ response.data.transaction_history = None
        /\ request.include_transaction_history =>
              Len(response.data.transaction_history) = Len(history_txn_ids)
        /\ AggregateNumbers(response.data) = AggregateNumbers(FiguresOfTransactions)
        /\ transactions =
              query_transactions(db_transactions, OtherFlag(request),
                  get_transaction_state(db_transaction_states, "Activo"))

\* a report without history was returned over a classified transaction of a
\* reported plot
C27_Witness ==
    /\ Succeeded
    /\ ~request.include_transaction_history
    /\ Len(transactions) > 0
    /\ ContributesToTotals(transactions[1])
    /\ response.data.farm_summary.total_ingresos
         + response.data.farm_summary.total_gastos > 0

(***************************************************************************)
(* Properties of the history items of unknown and failing creators.        *)
(***************************************************************************)
\* the fetched transactions whose category and type resolve
WithResolvedCategory ==
    SelectSeq(transactions,
        LAMBDA txn :
            LET txn_category_obj == categories_get(categories_map,
                                        txn.transaction_category_id)
            IN  IF Truthy(txn_category_obj)
                THEN Truthy(txn_category_obj.transaction_type) ELSE FALSE)

\* the lookup of this creator raises
LookupRaises(creator_id) == "raised" \in DOMAIN get_user_by_id(creator_id)

\* the transactions an item is expected for: those of WithResolvedCategory
\* whose creator lookup does not raise
ExpectedInHistory ==
    SelectSeq(WithResolvedCategory, LAMBDA txn : ~LookupRaises(txn.creator_id))

\* the name shown for a creator
DisplayName(creator_id) ==
    IF Truthy(get_user_by_id(creator_id)) THEN get_user_by_id(creator_id).name
    ELSE "Usuario #" \o ToString(creator_id)

\* C28: a report that reaches the building of its history succeeds whatever
\* the user lookups answer; it
\* holds exactly one item, in order, for each fetched transaction whose
\* category resolves and whose creator lookup does not raise; the item of a
\* creator the lookup does not find carries the name "Usuario #<id>"; a
\* transaction whose lookup raises is left out and the others are kept
C28_ItemFailureOmitsOnlyThatItem ==
    (pc = "done" /\ report_response # None
        /\ request.include_transaction_history) =>
        /\ response.status = "success"
        /\ response.status_code = 200
        /\ history_txn_ids =
              [i \in 1..Len(ExpectedInHistory) |-> ExpectedInHistory[i].transaction_id]
        /\ Len(response.data.transaction_history) = Len(ExpectedInHistory)
        /\ \A i \in 1..Len(ExpectedInHistory) :
              response.data.transaction_history[i].creator_name =
                  DisplayName(ExpectedInHistory[i].creator_id)

\* a report whose history holds the item of a creator the lookup answers
\* none for, next to a transaction left out because its lookup raised
C28_Witness ==
    /\ Succeeded /\ request.include_transaction_history
    /\ \E i \in 1..Len(transactions) : LookupRaises(transactions[i].creator_id)
    /\ \E i \in 1..Len(ExpectedInHistory) :
          /\ ~Truthy(get_user_by_id(ExpectedInHistory[i].creator_id))
          /\ response.data.transaction_history[i].creator_name =
                "Usuario #" \o ToString(ExpectedInHistory[i].creator_id)

(***************************************************************************)
(* Properties of the per-category breakdowns.                              *)
(***************************************************************************)
\* the amounts of a breakdown list
Montos(breakdown) == [i \in 1..Len(breakdown) |-> breakdown[i].monto]

\* the amount a breakdown list gives a category, 0.0 when it has no entry
MontoOf(breakdown, category_name) ==
    IF \E i \in 1..Len(breakdown) : breakdown[i].category_name = category_name
    THEN breakdown[CHOOSE i \in 1..Len(breakdown) :
                       breakdown[i].category_name = category_name].monto
    ELSE 0

\* within each plot and within the farm summary, each total is the sum of
\* the amounts of its breakdown
TotalsAreSumOfOwnBreakdown ==
    Succeeded =>
        LET pfs == response.data.plot_financials
            summary == response.data.farm_summary
        IN  /\ \A i \in 1..Len(pfs) :
                  /\ FloatSum(Montos(pfs[i].ingresos_por_categoria)) = pfs[i].ingresos
                  /\ FloatSum(Montos(pfs[i].gastos_por_categoria)) = pfs[i].gastos
            /\ FloatSum(Montos(summary.ingresos_por_categoria)) = summary.total_ingresos
            /\ FloatSum(Montos(summary.gastos_por_categoria)) = summary.total_gastos

\* C29: in every successful report, for each plot and for the farm the
\* amounts of the income breakdown add up to the income total and the
\* amounts of the expense breakdown add up to the expense total, and each
\* farm per-category amount is the sum of that category's amounts over the
\* plots
C29_BreakdownsAddUp ==
    Succeeded =>
        LET pfs == response.data.plot_financials
            summary == response.data.farm_summary
        IN  /\ \A i \in 1..Len(pfs) :
                  /\ FloatSum(Montos(pfs[i].ingresos_por_categoria)) = pfs[i].ingresos
                  /\ FloatSum(Montos(pfs[i].gastos_por_categoria)) = pfs[i].gastos
            /\ FloatSum(Montos(summary.ingresos_por_categoria)) = summary.total_ingresos
            /\ FloatSum(Montos(summary.gastos_por_categoria)) = summary.total_gastos
            /\ \A j \in 1..Len(summary.ingresos_por_categoria) :
                  summary.ingresos_por_categoria[j].monto =
                      FloatSum([i \in 1..Len(pfs) |->
                          MontoOf(pfs[i].ingresos_por_categoria,
                                  summary.ingresos_por_categoria[j].category_name)])
            /\ \A j \in 1..Len(summary.gastos_por_categoria) :
                  summary.gastos_por_categoria[j].monto =
                      FloatSum([i \in 1..Len(pfs) |->
                          MontoOf(pfs[i].gastos_por_categoria,
                                  summary.gastos_por_categoria[j].category_name)])

(***************************************************************************)
(* Properties of lotes_incluidos and plot_financials.                      *)
(***************************************************************************)
\* lotes_incluidos and plot_financials have the same length
SameNumberOfPlots ==
    Succeeded =>
        Len(response.data.lotes_incluidos) = Len(response.data.plot_financials)

\* C30: in every successful report lotes_incluidos and plot_financials have
\* the same length and correspond one-to-one: every included name is the
\* plot_name of exactly one PlotFinancialData entry and every entry's
\* plot_name is included exactly once, whatever the plot_ids list
C30_IncludedPlotsMatchPlotFinancials ==
    Succeeded =>
        LET lotes == response.data.lotes_incluidos
            pfs == response.data.plot_financials
        IN  /\ Len(lotes) = Len(pfs)
            /\ \A i \in 1..Len(lotes) :
                  Cardinality({ j \in 1..Len(pfs) : pfs[j].plot_name = lotes[i] }) = 1
            /\ \A j \in 1..Len(pfs) :
                  Cardinality({ i \in 1..Len(lotes) : lotes[i] = pfs[j].plot_name }) = 1

\* the same statement for requests that name no plot id twice
C30_MatchWhenNoIdRepeats ==
    (Succeeded /\ \A i, j \in 1..Len(request.plot_ids) :
                     request.plot_ids[i] = request.plot_ids[j] => i = j) =>
        LET lotes == response.data.lotes_incluidos
            pfs == response.data.plot_financials
        IN  /\ Len(lotes) = Len(pfs)
            /\ \A i \in 1..Len(lotes) :
                  Cardinality({ j \in 1..Len(pfs) : pfs[j].plot_name = lotes[i] }) = 1
            /\ \A j \in 1..Len(pfs) :
                  Cardinality({ i \in 1..Len(lotes) : lotes[i] = pfs[j].plot_name }) = 1

====
